---- MODULE Spec2Model ----
(***************************************************************************)
(* Propagation / causal-chain extraction of the st-live dashboard.         *)
(*                                                                         *)
(* Two implementations are modelled:                                       *)
(*   - src/utils/indicatorAnalysis.ts  extractTrendIndicators, the         *)
(*     chronological multi-chain scan that feeds the dashboard tables;     *)
(*     its scan loop is modelled one processed signal per step;            *)
(*   - src/utils/propagationTracker.ts extractTrendIndicators, the simpler *)
(*     chain-per-initial-signal variant that feeds the chart markers,      *)
(*     modelled as the operator trackerExtractTrendIndicators.             *)
(*                                                                         *)
(* A datetime string "YYYY-MM-DD HH:MM:SS" is modelled by the number of    *)
(* the second it names; a timeframe id by the sequence of its characters.  *)
(***************************************************************************)
EXTENDS Integers, Sequences, FiniteSets, TLC

VARIABLES
    allPredictions,      \* the feed: the keys of the record in insertion order, each with its list
    selectedTimeframes,  \* argument selectedTimeframes of indicatorAnalysis
    csvData,             \* argument csvData of indicatorAnalysis
    pc,                  \* "idle" | "scan" | "done" | "tracked"
    sortedTimeframes,    \* locals of indicatorAnalysis.extractTrendIndicators
    initialIndicators,
    activeChains,
    allSignals,
    signalIndex,         \* position of the outer loop over allSignals (1-based)
    propagations,
    trackerResult,       \* what propagationTracker.extractTrendIndicators returned
    firstResult,         \* what an earlier call on the same snapshot returned, or NULL
    fiveTimesDataCache,  \* the prediction service: the large cache of the ticker
    database,            \* the rows of table predictions, in the order of created_at
    realtimeEvents,      \* the events of the realtime channel not yet delivered
    pendingSaves,        \* the savePrediction calls whose upsert has not returned yet
    loading,             \* a page query of the load whose rows are not assigned yet, or NULL
    klinePollingInterval,      \* binanceAPI: TRUE while the interval timer is set
    isKlinePollingInProgress,  \* binanceAPI: the flag of the polling cycle
    activeSymbolTimeframes,    \* binanceAPI: the symbols polled, each with its intervals
    cycles,                    \* the polling cycles begun, each with its fetches not yet settled
    isInitialized,       \* the prediction service: its flag
    realtimeChannel,     \* the prediction service: the channel it holds, or NULL
    channels,            \* the channels of the client: created and not removed
    channelsCreated,     \* the number of channels the client has created
    initCalls,           \* the calls of initializePredictionService, each with its position
    predictionCallbacks, \* the prediction service: the callbacks registered, in order
    subscriptions,       \* the calls of subscribeToPredictionUpdates, each with the calls of
                         \* the function it returned
    currentFiveTimesMode,\* the prediction service: the cache its subscribers are given
    invoked,             \* the callbacks the last notification called, in order
    priceFetchCache,     \* Dashboard: the promise kept for each cache key
    priceFetches,        \* the calls of fetchPriceFromBinance, each with its state
    priceCallers,        \* the calls of getCachedPriceFetch, each with the promise returned
    displayPredictions   \* what getPredictionsToDisplay returned, with its showAllInsights

\* the prediction service without its caches
serviceVars == <<database, realtimeEvents, pendingSaves, loading>>

\* the kline polling of binanceAPI
pollingVars == <<klinePollingInterval, isKlinePollingInProgress, activeSymbolTimeframes,
                 cycles>>

\* the initialisation of the prediction service and its realtime channel
initVars == <<isInitialized, realtimeChannel, channels, channelsCreated, initCalls>>

\* the result of the chart's call of getPredictionsToDisplay
displayVars == <<displayPredictions>>

\* the memoized price fetches of the dashboard
priceVars == <<priceFetchCache, priceFetches, priceCallers>>

\* the subscribers of the prediction service
subscriberVars == <<predictionCallbacks, subscriptions, currentFiveTimesMode>>

\* the state the saves, the realtime handler and the load do not touch, apart
\* from the calls and the callbacks they call
beyondService == <<pollingVars, initVars, subscriberVars, priceVars, displayVars>>

\* the state outside the two extraction functions and the caches they read
otherVars == <<serviceVars, pollingVars, initVars, subscriberVars, invoked, priceVars, displayVars>>

\* the arguments, locals and results of the calls of the extraction functions
callVars == <<selectedTimeframes, csvData, pc, sortedTimeframes, initialIndicators,
              activeChains, allSignals, signalIndex, propagations, trackerResult,
              firstResult>>

\* the state the kline polling does not touch
exceptPolling == <<allPredictions, fiveTimesDataCache, callVars, serviceVars, initVars,
                   subscriberVars, invoked, priceVars, displayVars>>

\* the state the initialisation of the prediction service does not touch,
\* apart from the load it awaits
exceptInit == <<allPredictions, fiveTimesDataCache, callVars, serviceVars, pollingVars,
                subscriberVars, invoked, priceVars, displayVars>>

\* the state the subscriptions do not touch
exceptSubscribers == <<allPredictions, fiveTimesDataCache, callVars, serviceVars,
                       pollingVars, initVars, priceVars, displayVars>>

\* the state the price fetches do not touch
exceptPrices == <<allPredictions, fiveTimesDataCache, callVars, serviceVars, pollingVars,
                  initVars, subscriberVars, invoked, displayVars>>

vars == <<allPredictions, selectedTimeframes, csvData, pc, sortedTimeframes,
          initialIndicators, activeChains, allSignals, signalIndex, propagations,
          trackerResult, firstResult, fiveTimesDataCache, otherVars>>

-----------------------------------------------------------------------------
(* Bounds of the model *)

\* the number of entries the feed may hold
MaxSignals == 3

\* the number of entries the realtime channel may deliver
MaxLive == 4

\* the instants the writers of the database name
MaxTime == 2

\* the dataLimit of a timeframe's configuration, scaled down
DataLimit == 1

\* the number of events the realtime channel may hold undelivered
MaxEvents == 2

\* the values an entry may carry: no signal, both signs, and a second magnitude
Values == {-1, 0, 1, 2}

\* null, and a value v that is not null (a datetime that may be null, a find
\* that may find nothing)
NULL == <<>>

Some(v) == <<v>>

-----------------------------------------------------------------------------
(* Timeframe ids *)

Tf1m == <<"1", "m">>

Tf3m == <<"3", "m">>

Tf5m == <<"5", "m">>

\* keys of the per-ticker record, in the order the caches create them
FeedKeys == <<Tf1m, Tf3m, Tf5m>>

DigitChars == <<"0", "1", "2", "3", "4", "5", "6", "7", "8", "9">>

IsDigit(c) == \E i \in 1..10 : DigitChars[i] = c

DigitValue(c) == (CHOOSE i \in 1..10 : DigitChars[i] = c) - 1

RECURSIVE parseInt(_)
parseInt(digits) ==
    IF digits = <<>> THEN 0
    ELSE parseInt(SubSeq(digits, 1, Len(digits) - 1)) * 10 + DigitValue(digits[Len(digits)])

UnitSeconds(unit) ==
    CASE unit = <<"s">> -> 1
      [] unit = <<"m">> -> 60
      [] unit = <<"h">> -> 3600
      [] unit = <<"d">> -> 86400
      [] unit = <<"w">> -> 604800
      [] unit = <<"m", "o">> -> 2592000
      [] OTHER -> 0

IsUnit(unit) == unit \in {<<"s">>, <<"m">>, <<"h">>, <<"d">>, <<"w">>, <<"m", "o">>}

\* /^(\d+)(s|m|h|d|w|mo)$/ : the places where the id splits into digits and a unit
RegexSplits(timeframe) ==
    {n \in 1..(Len(timeframe) - 1) :
        /\ \A i \in 1..n : IsDigit(timeframe[i])
        /\ IsUnit(SubSeq(timeframe, n + 1, Len(timeframe)))}

timeframeToSeconds(timeframe) ==
    IF RegexSplits(timeframe) = {} THEN 0
    ELSE LET n == CHOOSE k \in RegexSplits(timeframe) : TRUE
         IN  parseInt(SubSeq(timeframe, 1, n)) * UnitSeconds(SubSeq(timeframe, n + 1, Len(timeframe)))

-----------------------------------------------------------------------------
(* Dates *)

\* new Date(datetime.replace(' ', 'T') + 'Z').getTime(): the string read as UTC, in ms
parseDateTime(datetime) == datetime * 1000

\* new Date(datetime).getTime(): the string read in the host's zone (here UTC+1), in ms
DateLocal(datetime) == datetime * 1000 - 3600000

Sign(v) == IF v > 0 THEN 1 ELSE IF v < 0 THEN -1 ELSE 0

-----------------------------------------------------------------------------
(* Array.prototype.sort with a comparator key(a) - key(b): a stable sort *)

\* the place element i takes when keys[i] is its key: after every smaller key
\* and after every equal key that comes before it
SortedPlace(keys, i) ==
    Cardinality({j \in 1..Len(keys) :
        \/ keys[j] < keys[i]
        \/ (keys[j] = keys[i] /\ j < i)}) + 1

StableSort(seq, keys) ==
    [p \in 1..Len(seq) |-> seq[CHOOSE i \in 1..Len(seq) : SortedPlace(keys, i) = p]]

RECURSIVE Flatten(_)
Flatten(seqs) ==
    IF seqs = <<>> THEN <<>> ELSE Head(seqs) \o Flatten(Tail(seqs))

\* the first index of a non-empty set of indices
FirstOf(hits) == CHOOSE i \in hits : \A j \in hits : i <= j

SeqContains(seq, x) == \E i \in 1..Len(seq) : seq[i] = x

-----------------------------------------------------------------------------
(* The feed *)

\* Object.keys(allPredictions)
ObjectKeys(preds) == [i \in 1..Len(preds) |-> preds[i].tf]

\* allPredictions[tf] || []
Lookup(preds, tf) ==
    LET hits == {i \in 1..Len(preds) : preds[i].tf = tf}
    IN  IF hits = {} THEN <<>> ELSE preds[CHOOSE i \in hits : TRUE].preds

AllEntries(preds) == Flatten([i \in 1..Len(preds) |-> preds[i].preds])

TotalEntries(preds) == Len(AllEntries(preds))

\* the latest instant an entry of the feed names, 0 for the empty feed
LastTime(preds) ==
    LET entries == AllEntries(preds)
    IN  IF entries = <<>> THEN 0
        ELSE CHOOSE t \in {entries[i].datetime : i \in 1..Len(entries)} :
                \A i \in 1..Len(entries) : entries[i].datetime <= t

-----------------------------------------------------------------------------
(* indicatorAnalysis.ts *)

\* getOpenPriceAtDatetime with the price map: the open of the last candle set
\* for that time, or 0
getOpenPriceAtDatetime(candles, datetime) ==
    LET targetTime == parseDateTime(datetime) \div 1000
        hits == {i \in 1..Len(candles) : candles[i].time = targetTime}
    IN  IF hits = {} THEN 0
        ELSE candles[CHOOSE i \in hits : \A j \in hits : j <= i].open

\* the percent change (propOpenPrice - initial) / initial * 100 as an exact fraction
DirectionalChange(propOpenPrice, initialOpenPrice) ==
    IF initialOpenPrice # 0
    THEN [num |-> (propOpenPrice - initialOpenPrice) * 100, den |-> initialOpenPrice]
    ELSE [num |-> 0, den |-> 1]

\* TimeframesToUse that takes every key whatever the subset
TimeframesToUseAll(preds, selected) == ObjectKeys(preds)

TimeframesToUse(preds, selected) ==
    IF Len(selected) > 0
    THEN SelectSeq(ObjectKeys(preds), LAMBDA tf : SeqContains(selected, tf))
    ELSE ObjectKeys(preds)

SortTimeframes(preds, selected) ==
    LET tfs == TimeframesToUse(preds, selected)
    IN  StableSort(tfs, [i \in 1..Len(tfs) |-> timeframeToSeconds(tfs[i])])

\* SortedPredictions that takes the list in the order it was given
SortedPredictionsAsGiven(preds, sortedTfs) == Lookup(preds, sortedTfs[1])

SortedPredictions(preds, sortedTfs) ==
    LET highest == Lookup(preds, sortedTfs[1])
    IN  StableSort(highest, [i \in 1..Len(highest) |-> DateLocal(highest[i].datetime)])

\* StartsIndicator without the test that the value is a signal
StartsIndicatorAtZero(value, lastSignal) ==
    lastSignal = NULL \/ value # lastSignal[1]

\* the test of the first loop: a non-zero value that differs from the last signal
StartsIndicator(value, lastSignal) ==
    value # 0 /\ (lastSignal = NULL \/ value # lastSignal[1])

NewIndicator(pred, timeframe, candles) ==
    [datetime |-> pred.datetime,
     trend_type |-> pred.value,
     timeframe |-> timeframe,
     end_datetime |-> NULL,
     open_price |-> getOpenPriceAtDatetime(candles, pred.datetime),
     directional_change_percent |-> [num |-> 0, den |-> 1]]

\* the first loop over sortedPredictions, up to and including entry n
RECURSIVE DetectLoop(_, _, _, _)
DetectLoop(sortedPreds, n, timeframe, candles) ==
    IF n = 0 THEN [indicators |-> <<>>, lastSignal |-> NULL]
    ELSE LET before == DetectLoop(sortedPreds, n - 1, timeframe, candles)
             pred == sortedPreds[n]
         IN  IF StartsIndicator(pred.value, before.lastSignal)
             THEN [indicators |-> Append(before.indicators, NewIndicator(pred, timeframe, candles)),
                   lastSignal |-> Some(pred.value)]
             ELSE before

\* the test of the find that looks for the signal closing an indicator's run
IsOpposingLater(pred, indicator) ==
    /\ DateLocal(pred.datetime) > DateLocal(indicator.datetime)
    /\ pred.value = -indicator.trend_type

EndDatetime(sortedPreds, indicator) ==
    LET hits == {i \in 1..Len(sortedPreds) : IsOpposingLater(sortedPreds[i], indicator)}
    IN  IF hits # {} THEN Some(sortedPreds[FirstOf(hits)].datetime)
        ELSE IF sortedPreds = <<>> THEN NULL
        ELSE Some(sortedPreds[Len(sortedPreds)].datetime)

\* the indicators with their end_datetime assigned
InitialIndicators(preds, sortedTfs, candles) ==
    LET sortedPreds == SortedPredictions(preds, sortedTfs)
        found == DetectLoop(sortedPreds, Len(sortedPreds), sortedTfs[1], candles).indicators
    IN  [i \in 1..Len(found) |->
            [found[i] EXCEPT !.end_datetime = EndDatetime(sortedPreds, found[i])]]

\* ChainId that numbers the chains from 0
ChainIdFromZero(chainCounter) == <<"Chain_", chainCounter - 1>>

ChainId(chainCounter) == <<"Chain_", chainCounter>>

NewChain(indicator, chainCounter) ==
    [chainId |-> ChainId(chainCounter),
     initialDatetime |-> parseDateTime(indicator.datetime),
     endDatetime |-> parseDateTime(indicator.end_datetime[1]),
     trendType |-> indicator.trend_type,
     initialOpenPrice |-> indicator.open_price,
     currentTimeframeIndex |-> 0,
     nextExpectedTimeframeIndex |-> 1,
     propagationLevel |-> 0,
     isActive |-> TRUE]

\* one chain per indicator that has an end_datetime, numbered as they are created
RECURSIVE CreateChains(_, _)
CreateChains(indicators, n) ==
    IF n = 0 THEN <<>>
    ELSE LET before == CreateChains(indicators, n - 1)
         IN  IF indicators[n].end_datetime = NULL THEN before
             ELSE Append(before, NewChain(indicators[n], Len(before) + 1))

SignalEvent(pred, tf, tfIndex) ==
    [datetime |-> parseDateTime(pred.datetime),
     datetimeString |-> pred.datetime,
     timeframeIndex |-> tfIndex,
     timeframe |-> tf,
     value |-> pred.value]

\* the non-zero entries of one timeframe, as signal events
TimeframeSignals(preds, tf, tfIndex) ==
    LET kept == SelectSeq(Lookup(preds, tf), LAMBDA p : p.value # 0)
    IN  [i \in 1..Len(kept) |-> SignalEvent(kept[i], tf, tfIndex)]

\* CollectSignals without the sort by time
CollectSignalsAsPushed(preds, sortedTfs) ==
    Flatten([r \in 1..Len(sortedTfs) |-> TimeframeSignals(preds, sortedTfs[r], r - 1)])

CollectSignals(preds, sortedTfs) ==
    LET pushed == Flatten([r \in 1..Len(sortedTfs) |->
                              TimeframeSignals(preds, sortedTfs[r], r - 1)])
    IN  StableSort(pushed, [i \in 1..Len(pushed) |-> pushed[i].datetime])

\* InWindow without the test against the end of the window
InWindowIgnoresEnd(chain, signal) ==
    ~(signal.datetime < chain.initialDatetime)

InWindow(chain, signal) ==
    ~(signal.datetime < chain.initialDatetime \/ signal.datetime > chain.endDatetime)

\* IsPropagation that asks for a resolved initial price
IsPropagationWhenPriced(chain, signal) ==
    signal.value = chain.trendType /\ chain.initialOpenPrice # 0

IsPropagation(chain, signal) == signal.value = chain.trendType

IsInvalidation(chain, signal) == signal.value = -chain.trendType

NewPropagation(chain, signal, sortedTfs, candles) ==
    LET propOpenPrice == getOpenPriceAtDatetime(candles, signal.datetimeString)
    IN  [propagation_id |-> chain.chainId,
         propagation_level |-> chain.propagationLevel + 1,
         datetime |-> signal.datetimeString,
         trend_type |-> chain.trendType,
         higher_freq |-> sortedTfs[chain.currentTimeframeIndex + 1],
         lower_freq |-> signal.timeframe,
         open_price |-> propOpenPrice,
         directional_change_percent |-> DirectionalChange(propOpenPrice, chain.initialOpenPrice)]

\* AdvanceChain that leaves the next expected index where it was
AdvanceChainKeepsExpected(chain, signal, sortedTfs) ==
    [chain EXCEPT !.propagationLevel = chain.propagationLevel + 1,
                  !.currentTimeframeIndex = signal.timeframeIndex,
                  !.isActive = ~(signal.timeframeIndex + 1 >= Len(sortedTfs))]

\* AdvanceChain that leaves the level where it was
AdvanceChainKeepsLevel(chain, signal, sortedTfs) ==
    [chain EXCEPT !.currentTimeframeIndex = signal.timeframeIndex,
                  !.nextExpectedTimeframeIndex = signal.timeframeIndex + 1,
                  !.isActive = ~(signal.timeframeIndex + 1 >= Len(sortedTfs))]

AdvanceChain(chain, signal, sortedTfs) ==
    [chain EXCEPT !.propagationLevel = chain.propagationLevel + 1,
                  !.currentTimeframeIndex = signal.timeframeIndex,
                  !.nextExpectedTimeframeIndex = signal.timeframeIndex + 1,
                  !.isActive = ~(signal.timeframeIndex + 1 >= Len(sortedTfs))]

\* ProcessChain without the test of the signal's rank
ProcessChainAnyRank(chain, signal, sortedTfs, candles) ==
    IF ~chain.isActive \/ ~InWindow(chain, signal)
    THEN [chain |-> chain, pushed |-> <<>>]
    ELSE IF IsPropagation(chain, signal)
    THEN [chain |-> AdvanceChain(chain, signal, sortedTfs),
          pushed |-> <<NewPropagation(chain, signal, sortedTfs, candles)>>]
    ELSE IF IsInvalidation(chain, signal)
    THEN [chain |-> [chain EXCEPT !.isActive = FALSE], pushed |-> <<>>]
    ELSE [chain |-> chain, pushed |-> <<>>]

\* the body of the inner loop for one chain: the chain afterwards and what it pushed
ProcessChain(chain, signal, sortedTfs, candles) ==
    IF ~chain.isActive \/ ~InWindow(chain, signal)
       \/ signal.timeframeIndex # chain.nextExpectedTimeframeIndex
    THEN [chain |-> chain, pushed |-> <<>>]
    ELSE IF IsPropagation(chain, signal)
    THEN [chain |-> AdvanceChain(chain, signal, sortedTfs),
          pushed |-> <<NewPropagation(chain, signal, sortedTfs, candles)>>]
    ELSE IF IsInvalidation(chain, signal)
    THEN [chain |-> [chain EXCEPT !.isActive = FALSE], pushed |-> <<>>]
    ELSE [chain |-> chain, pushed |-> <<>>]

\* one iteration of the loop over allSignals: every chain, in creation order,
\* meets the signal
ScanStep(st, signal, sortedTfs, candles) ==
    LET step == [c \in 1..Len(st.chains) |->
                    ProcessChain(st.chains[c], signal, sortedTfs, candles)]
    IN  [chains |-> [c \in 1..Len(st.chains) |-> step[c].chain],
         propagations |-> st.propagations \o
                          Flatten([c \in 1..Len(st.chains) |-> step[c].pushed])]

\* the loop over the first n signals
RECURSIVE ScanLoop(_, _, _, _, _)
ScanLoop(chains, signals, n, sortedTfs, candles) ==
    IF n = 0 THEN [chains |-> chains, propagations |-> <<>>]
    ELSE ScanStep(ScanLoop(chains, signals, n - 1, sortedTfs, candles), signals[n],
                  sortedTfs, candles)

\* the whole call: what extractTrendIndicators returns
extractTrendIndicators(preds, selected, candles) ==
    LET sortedTfs == SortTimeframes(preds, selected)
    IN  IF Len(sortedTfs) = 0 THEN [initialIndicators |-> <<>>, propagations |-> <<>>]
        ELSE LET indicators == InitialIndicators(preds, sortedTfs, candles)
                 signals == CollectSignals(preds, sortedTfs)
             IN  [initialIndicators |-> indicators,
                  propagations |->
                      ScanLoop(CreateChains(indicators, Len(indicators)), signals,
                               Len(signals), sortedTfs, candles).propagations]

-----------------------------------------------------------------------------
(* propagationTracker.ts *)

Ticker == "BTCUSDT"

\* Object.keys(allPredictions).filter(tf => allPredictions[tf].length > 0), sorted
TrackerSortTimeframes(preds) ==
    LET tfs == SelectSeq(ObjectKeys(preds), LAMBDA tf : Len(Lookup(preds, tf)) > 0)
    IN  StableSort(tfs, [i \in 1..Len(tfs) |-> timeframeToSeconds(tfs[i])])

TrackerStartsIndicator(currentSignal, lastSignal) ==
    currentSignal # 0 /\ (lastSignal = NULL \/ Sign(currentSignal) # Sign(lastSignal[1]))

TrackerNewIndicator(prediction, timeframe) ==
    [datetime |-> prediction.datetime,
     trend_type |-> Sign(prediction.value),
     timeframe |-> timeframe,
     open |-> 0,
     end_datetime |-> NULL,
     ticker |-> Ticker]

\* step 1 over highestFreqPredictions, in the order given, up to and including entry n
RECURSIVE TrackerDetectLoop(_, _, _)
TrackerDetectLoop(highestFreqPredictions, n, timeframe) ==
    IF n = 0 THEN [indicators |-> <<>>, lastSignal |-> NULL]
    ELSE LET before == TrackerDetectLoop(highestFreqPredictions, n - 1, timeframe)
             prediction == highestFreqPredictions[n]
         IN  IF TrackerStartsIndicator(prediction.value, before.lastSignal)
             THEN [indicators |-> Append(before.indicators,
                                          TrackerNewIndicator(prediction, timeframe)),
                   lastSignal |-> Some(prediction.value)]
             ELSE before

TrackerEndDatetime(highestFreqPredictions, indicator) ==
    LET laterSignals == SelectSeq(highestFreqPredictions, LAMBDA p :
            /\ parseDateTime(p.datetime) > parseDateTime(indicator.datetime)
            /\ Sign(p.value) = -indicator.trend_type)
    IN  IF Len(laterSignals) > 0 THEN Some(laterSignals[1].datetime)
        ELSE IF highestFreqPredictions = <<>> THEN Some(indicator.datetime)
        ELSE Some(highestFreqPredictions[Len(highestFreqPredictions)].datetime)

TrackerInitialIndicators(preds, sortedTfs) ==
    LET highest == Lookup(preds, sortedTfs[1])
        found == TrackerDetectLoop(highest, Len(highest), sortedTfs[1]).indicators
    IN  [i \in 1..Len(found) |->
            [found[i] EXCEPT !.end_datetime = TrackerEndDatetime(highest, found[i])]]

PropId(propagationCounter) == <<"Prop_", propagationCounter>>

\* the same-sign signals of the next lower timeframe between the chain's datetime
\* and the end of the window
TrackerLaterSignals(nextLowerPredictions, chainDatetime, endDatetime, currentType) ==
    SelectSeq(nextLowerPredictions, LAMBDA p :
        /\ parseDateTime(p.datetime) >= parseDateTime(chainDatetime)
        /\ parseDateTime(p.datetime) <= parseDateTime(endDatetime)
        /\ Sign(p.value) = currentType)

\* TrackerOpposingSignalFound that never finds one
TrackerOpposingSignalIgnored(initialFreqPredictions, chainDatetime, nextSignalDatetime, currentType) ==
    FALSE

\* an opposite signal of the initial timeframe after the chain's datetime and up
\* to the candidate
TrackerOpposingSignalFound(initialFreqPredictions, chainDatetime, nextSignalDatetime, currentType) ==
    \E i \in 1..Len(initialFreqPredictions) :
        /\ parseDateTime(initialFreqPredictions[i].datetime) > parseDateTime(chainDatetime)
        /\ parseDateTime(initialFreqPredictions[i].datetime) <= parseDateTime(nextSignalDatetime)
        /\ Sign(initialFreqPredictions[i].value) = -currentType

\* the loop over j (0-based index of the next lower timeframe) for one indicator:
\* the propagations it pushes from j on
RECURSIVE TrackerChainLoop(_, _, _, _, _, _, _, _)
TrackerChainLoop(preds, sortedTfs, indicator, propId, j, chainDatetime, chainTfIndex, level) ==
    IF ~(j < Len(sortedTfs)) THEN <<>>
    ELSE
      LET laterSignals == TrackerLaterSignals(Lookup(preds, sortedTfs[j + 1]), chainDatetime,
                              indicator.end_datetime[1], indicator.trend_type)
      IN  IF Len(laterSignals) = 0 THEN <<>>
          ELSE
            LET nextSignalDatetime == laterSignals[1].datetime
            IN  IF TrackerOpposingSignalFound(Lookup(preds, sortedTfs[1]), chainDatetime,
                                              nextSignalDatetime, indicator.trend_type)
                THEN <<>>
                ELSE <<[propagation_id |-> propId,
                        propagation_level |-> level + 1,
                        datetime |-> nextSignalDatetime,
                        trend_type |-> indicator.trend_type,
                        higher_freq |-> sortedTfs[chainTfIndex + 1],
                        lower_freq |-> sortedTfs[j + 1],
                        open |-> 0,
                        ticker |-> Ticker]>>
                     \o TrackerChainLoop(preds, sortedTfs, indicator, propId, j + 1,
                                         nextSignalDatetime, j, level + 1)

\* step 2: the chains of the first n indicators
RECURSIVE TrackerPropagations(_, _, _, _)
TrackerPropagations(preds, sortedTfs, indicators, n) ==
    IF n = 0 THEN [propagations |-> <<>>, propagationCounter |-> 0]
    ELSE LET before == TrackerPropagations(preds, sortedTfs, indicators, n - 1)
             initialInd == indicators[n]
         IN  IF initialInd.end_datetime = NULL THEN before
             ELSE [propagations |-> before.propagations \o
                       TrackerChainLoop(preds, sortedTfs, initialInd,
                                        PropId(before.propagationCounter + 1), 1,
                                        initialInd.datetime, 0, 0),
                   propagationCounter |-> before.propagationCounter + 1]

trackerExtractTrendIndicators(preds) ==
    LET sortedTfs == TrackerSortTimeframes(preds)
    IN  IF Len(sortedTfs) = 0 THEN [initialIndicators |-> <<>>, propagations |-> <<>>]
        ELSE LET indicators == TrackerInitialIndicators(preds, sortedTfs)
             IN  [initialIndicators |-> indicators,
                  propagations |-> TrackerPropagations(preds, sortedTfs, indicators,
                                                       Len(indicators)).propagations]

-----------------------------------------------------------------------------
(* The state machine *)

EmptyFeed == [i \in 1..Len(FeedKeys) |-> [tf |-> FeedKeys[i], preds |-> <<>>]]

\* the prediction service before anything was saved, loaded or delivered, with
\* empty caches for the ticker
ElsewhereIdle ==
    /\ fiveTimesDataCache = EmptyFeed
    /\ database = <<>>
    /\ realtimeEvents = <<>>
    /\ pendingSaves = {}
    /\ loading = NULL
    /\ klinePollingInterval = FALSE
    /\ isKlinePollingInProgress = FALSE
    /\ activeSymbolTimeframes = <<>>
    /\ cycles = <<>>
    /\ isInitialized = FALSE
    /\ realtimeChannel = NULL
    /\ channels = {}
    /\ channelsCreated = 0
    /\ initCalls = <<>>
    /\ predictionCallbacks = <<>>
    /\ subscriptions = <<>>
    /\ currentFiveTimesMode = FALSE
    /\ invoked = <<>>
    /\ priceFetchCache = <<>>
    /\ priceFetches = <<>>
    /\ priceCallers = <<>>
    /\ displayPredictions = [showAllInsights |-> FALSE, shown |-> <<>>]

Init ==
    /\ ElsewhereIdle
    /\ allPredictions = EmptyFeed
    /\ selectedTimeframes = <<>>
    /\ csvData = <<>>
    /\ pc = "idle"
    /\ sortedTimeframes = <<>>
    /\ initialIndicators = <<>>
    /\ activeChains = <<>>
    /\ allSignals = <<>>
    /\ signalIndex = 0
    /\ propagations = <<>>
    /\ trackerResult = [initialIndicators |-> <<>>, propagations |-> <<>>]
    /\ firstResult = NULL

\* the feed grows in the order of time: an entry for the latest instant or for the
\* next one is pushed on the list of one timeframe
AddPrediction ==
    /\ pc = "idle"
    /\ TotalEntries(allPredictions) < MaxSignals
    /\ \E k \in 1..Len(allPredictions), v \in Values,
          t \in {LastTime(allPredictions), LastTime(allPredictions) + 1} \ {0} :
          allPredictions' = [allPredictions EXCEPT
              ![k].preds = Append(@, [datetime |-> t, value |-> v])]
    /\ UNCHANGED <<selectedTimeframes, csvData, pc, sortedTimeframes, initialIndicators,
                   activeChains, allSignals, signalIndex, propagations, trackerResult,
                   firstResult>>
    /\ UNCHANGED <<fiveTimesDataCache, otherVars>>

\* ExtractStart with a propagations array that outlives the call
ExtractStartKeepsPropagations ==
    /\ pc \in {"idle", "again"}
    /\ sortedTimeframes' = SortTimeframes(allPredictions, selectedTimeframes)
    /\ IF Len(sortedTimeframes') = 0
       THEN /\ initialIndicators' = <<>>
            /\ propagations' = <<>>
            /\ activeChains' = <<>>
            /\ allSignals' = <<>>
            /\ signalIndex' = 0
            /\ pc' = "done"
       ELSE /\ initialIndicators' =
                   InitialIndicators(allPredictions, sortedTimeframes', csvData)
            /\ activeChains' = CreateChains(initialIndicators', Len(initialIndicators'))
            /\ allSignals' = CollectSignals(allPredictions, sortedTimeframes')
            /\ signalIndex' = 1
            /\ propagations' = propagations
            /\ pc' = "scan"
    /\ UNCHANGED <<allPredictions, selectedTimeframes, csvData, trackerResult, firstResult>>
    /\ UNCHANGED <<fiveTimesDataCache, otherVars>>

\* ExtractStart whose sort of the timeframes reorders the keys of the feed itself
ExtractStartSortsInPlace ==
    /\ pc \in {"idle", "again"}
    /\ sortedTimeframes' = SortTimeframes(allPredictions, selectedTimeframes)
    /\ allPredictions' =
           IF selectedTimeframes = <<>>
           THEN [i \in 1..Len(allPredictions) |->
                    [tf |-> sortedTimeframes'[i],
                     preds |-> Lookup(allPredictions, sortedTimeframes'[i])]]
           ELSE allPredictions
    /\ IF Len(sortedTimeframes') = 0
       THEN /\ initialIndicators' = <<>>
            /\ propagations' = <<>>
            /\ activeChains' = <<>>
            /\ allSignals' = <<>>
            /\ signalIndex' = 0
            /\ pc' = "done"
       ELSE /\ initialIndicators' =
                   InitialIndicators(allPredictions, sortedTimeframes', csvData)
            /\ activeChains' = CreateChains(initialIndicators', Len(initialIndicators'))
            /\ allSignals' = CollectSignals(allPredictions, sortedTimeframes')
            /\ signalIndex' = 1
            /\ propagations' = <<>>
            /\ pc' = "scan"
    /\ UNCHANGED <<selectedTimeframes, csvData, trackerResult, firstResult>>
    /\ UNCHANGED <<fiveTimesDataCache, otherVars>>

\* indicatorAnalysis.extractTrendIndicators from the call to the start of the scan
\* loop, or to the early return when no timeframe is left
ExtractStart ==
    /\ pc \in {"idle", "again"}
    /\ sortedTimeframes' = SortTimeframes(allPredictions, selectedTimeframes)
    /\ IF Len(sortedTimeframes') = 0
       THEN /\ initialIndicators' = <<>>
            /\ propagations' = <<>>
            /\ activeChains' = <<>>
            /\ allSignals' = <<>>
            /\ signalIndex' = 0
            /\ pc' = "done"
       ELSE /\ initialIndicators' =
                   InitialIndicators(allPredictions, sortedTimeframes', csvData)
            /\ activeChains' = CreateChains(initialIndicators', Len(initialIndicators'))
            /\ allSignals' = CollectSignals(allPredictions, sortedTimeframes')
            /\ signalIndex' = 1
            /\ propagations' = <<>>
            /\ pc' = "scan"
    /\ UNCHANGED <<allPredictions, selectedTimeframes, csvData, trackerResult, firstResult>>
    /\ UNCHANGED <<fiveTimesDataCache, otherVars>>

\* one iteration of the loop over allSignals: every chain meets the signal
ProcessSignal ==
    /\ pc = "scan"
    /\ signalIndex <= Len(allSignals)
    /\ LET after == ScanStep([chains |-> activeChains, propagations |-> propagations],
                             allSignals[signalIndex], sortedTimeframes, csvData)
       IN  /\ activeChains' = after.chains
           /\ propagations' = after.propagations
    /\ signalIndex' = signalIndex + 1
    /\ UNCHANGED <<allPredictions, selectedTimeframes, csvData, pc, sortedTimeframes,
                   initialIndicators, allSignals, trackerResult,
                   firstResult>>
    /\ UNCHANGED <<fiveTimesDataCache, otherVars>>

\* the loop is over: the function returns initialIndicators and propagations
ExtractReturn ==
    /\ pc = "scan"
    /\ signalIndex > Len(allSignals)
    /\ pc' = "done"
    /\ UNCHANGED <<allPredictions, selectedTimeframes, csvData, sortedTimeframes,
                   initialIndicators, activeChains, allSignals, signalIndex, propagations,
                   trackerResult,
                   firstResult>>
    /\ UNCHANGED <<fiveTimesDataCache, otherVars>>

\* propagationTracker.extractTrendIndicators is called on the feed
TrackerExtract ==
    /\ pc = "idle"
    /\ trackerResult' = trackerExtractTrendIndicators(allPredictions)
    /\ pc' = "tracked"
    /\ UNCHANGED <<allPredictions, selectedTimeframes, csvData, sortedTimeframes,
                   initialIndicators, activeChains, allSignals, signalIndex, propagations,
                   firstResult>>
    /\ UNCHANGED <<fiveTimesDataCache, otherVars>>

\* the caller keeps what the call returned and calls again on the same snapshot
Rerun ==
    /\ pc = "done"
    /\ firstResult = NULL
    /\ firstResult' = Some([initialIndicators |-> initialIndicators,
                            propagations |-> propagations])
    /\ pc' = "again"
    /\ UNCHANGED <<allPredictions, selectedTimeframes, csvData, sortedTimeframes,
                   initialIndicators, activeChains, allSignals, signalIndex, propagations,
                   trackerResult>>
    /\ UNCHANGED <<fiveTimesDataCache, otherVars>>

Next ==
    \/ AddPrediction
    \/ ExtractStart
    \/ ProcessSignal
    \/ ExtractReturn
    \/ TrackerExtract

Spec == Init /\ [][Next]_vars

NextRerun ==
    \/ AddPrediction
    \/ ExtractStart
    \/ ProcessSignal
    \/ ExtractReturn
    \/ Rerun

\* the same feed, with the dashboard calling twice on a snapshot
SpecRerun == Init /\ [][NextRerun]_vars

-----------------------------------------------------------------------------
(* The feed filled by the realtime channel of the prediction service *)

\* the limit of a list of the normal cache when the timeframe has no configuration
normalDataLimit == 1000

\* list.slice(-limit)
SliceLast(list, limit) ==
    IF Len(list) > limit THEN SubSeq(list, Len(list) - limit + 1, Len(list)) ELSE list

\* an INSERT arrives on the realtime channel: a prediction of value other than 0
\* whose datetime the list of its timeframe does not hold yet is pushed on
\* that list, which keeps its most recent entries
\* AcceptsInsert without the test of the value
AcceptsInsertOfZero(cache, k, payload) ==
    /\ payload.eventType = "INSERT"
    /\ ~\E i \in 1..Len(cache[k].preds) : cache[k].preds[i].datetime = payload.datetime

\* the test of the handler: an INSERT of a value other than 0 whose datetime the
\* list of its timeframe in the normal cache does not hold yet
AcceptsInsert(cache, k, payload) ==
    /\ payload.eventType = "INSERT"
    /\ payload.value # 0
    /\ ~\E i \in 1..Len(cache[k].preds) : cache[k].preds[i].datetime = payload.datetime

\* the normal cache after the push of an accepted prediction, cut to its limit
PushNormal(cache, k, payload, limit) ==
    [cache EXCEPT ![k].preds =
        SliceLast(Append(@, [datetime |-> payload.datetime, value |-> payload.value]), limit)]

\* the large cache after the push of an accepted prediction
PushFiveTimes(cache, k, payload) ==
    [cache EXCEPT ![k].preds =
        Append(@, [datetime |-> payload.datetime, value |-> payload.value])]

\* the calls of predictionCallbacks.forEach, made once for each of a number of
\* keys
Notified(callbacks, keys) ==
    [i \in 1..(Len(callbacks) * keys) |-> callbacks[((i - 1) % Len(callbacks)) + 1]]

handleRealtimeUpdate ==
    /\ pc = "idle"
    /\ TotalEntries(allPredictions) < MaxLive
    /\ \E k \in 1..Len(allPredictions), value \in Values,
          datetime \in {LastTime(allPredictions), LastTime(allPredictions) + 1} \ {0} :
          LET payload == [eventType |-> "INSERT", timeframe |-> allPredictions[k].tf,
                          datetime |-> datetime, value |-> value]
          IN  /\ AcceptsInsert(allPredictions, k, payload)
              /\ allPredictions' = PushNormal(allPredictions, k, payload, normalDataLimit)
              /\ fiveTimesDataCache' = PushFiveTimes(fiveTimesDataCache, k, payload)
    /\ invoked' = Notified(predictionCallbacks, 1)
    /\ UNCHANGED <<selectedTimeframes, csvData, pc, sortedTimeframes, initialIndicators,
                   activeChains, allSignals, signalIndex, propagations, trackerResult,
                   firstResult>>
    /\ UNCHANGED <<serviceVars, beyondService>>

NextLive ==
    \/ handleRealtimeUpdate
    \/ ExtractStart
    \/ ProcessSignal
    \/ ExtractReturn
    \/ TrackerExtract

\* the feed as the realtime channel fills it
SpecLive == Init /\ [][NextLive]_vars

-----------------------------------------------------------------------------
(* The prediction service: savePrediction, the realtime channel and the load *)

\* the values savePrediction is called with, in tenths: -0.4 and 1
SaveValues == {-4, 10}

\* the values another writer of the table stores
WriterValues == {0}

\* the positions of the keys the writers of the table name: the first timeframe
WrittenKeys == {1}

\* Math.round of a number given in tenths: the nearest integer, halves upwards
Round(tenths) == (tenths + 5) \div 10

\* the position of a timeframe's key in a cache
KeyIndex(cache, timeframe) == CHOOSE k \in 1..Len(cache) : cache[k].tf = timeframe

\* the rows of the table that the unique key (timeframe, datetime, ticker) names
RowsAt(rows, timeframe, datetime) ==
    {i \in 1..Len(rows) : rows[i].timeframe = timeframe /\ rows[i].datetime = datetime}

\* upsert with onConflict timeframe,datetime,ticker: the row is updated in place
\* or added as the newest row
Upsert(rows, row) ==
    IF RowsAt(rows, row.timeframe, row.datetime) = {} THEN Append(rows, row)
    ELSE [i \in 1..Len(rows) |->
             IF i \in RowsAt(rows, row.timeframe, row.datetime) THEN row ELSE rows[i]]

\* the event the table's change feed sends for a write
ChangeEvent(rows, row) ==
    [eventType |-> IF RowsAt(rows, row.timeframe, row.datetime) = {} THEN "INSERT"
                   ELSE "UPDATE",
     timeframe |-> row.timeframe, datetime |-> row.datetime, value |-> row.value]

\* savePrediction up to its await: the value is rounded, a value of 0 is not
\* saved, and the upsert is sent; the upsert may fail
savePrediction ==
    /\ Len(realtimeEvents) < MaxEvents
    /\ \E k \in WrittenKeys, datetime \in 1..MaxTime, value \in SaveValues,
          error \in BOOLEAN :
          LET integerValue == Round(value)
              row == [timeframe |-> allPredictions[k].tf, datetime |-> datetime,
                      value |-> integerValue, writer |-> "savePrediction"]
          IN  IF integerValue = 0 \/ error
              THEN UNCHANGED <<database, realtimeEvents, pendingSaves>>
              ELSE /\ database' = Upsert(database, row)
                   /\ realtimeEvents' = Append(realtimeEvents, ChangeEvent(database, row))
                   /\ pendingSaves' = pendingSaves \cup
                          {[timeframe |-> row.timeframe, datetime |-> datetime,
                            value |-> integerValue]}
    /\ UNCHANGED <<allPredictions, fiveTimesDataCache, loading, callVars, beyondService, invoked>>

\* a list with the entry of that datetime replaced, or with the entry pushed
ReplaceOrPush(list, entry) ==
    LET hits == {i \in 1..Len(list) : list[i].datetime = entry.datetime}
    IN  IF hits # {} THEN [list EXCEPT ![FirstOf(hits)] = entry] ELSE Append(list, entry)

\* savePrediction after its await: both caches take the prediction, each at the
\* place of the entry of that datetime if it has one; the normal cache is cut
\* to its limit after a push
savePredictionResumes ==
    /\ \E saved \in pendingSaves :
          LET k == KeyIndex(allPredictions, saved.timeframe)
              newPrediction == [datetime |-> saved.datetime, value |-> saved.value]
          IN  /\ allPredictions' = [allPredictions EXCEPT ![k].preds =
                     SliceLast(ReplaceOrPush(@, newPrediction), DataLimit)]
              /\ fiveTimesDataCache' = [fiveTimesDataCache EXCEPT ![k].preds =
                     ReplaceOrPush(@, newPrediction)]
              /\ pendingSaves' = pendingSaves \ {saved}
    /\ UNCHANGED <<database, realtimeEvents, loading, callVars, beyondService, invoked>>

\* another writer of the table stores a row, whose value may be 0
writerStores ==
    /\ Len(realtimeEvents) < MaxEvents
    /\ \E k \in WrittenKeys, datetime \in 1..MaxTime, value \in WriterValues :
          LET row == [timeframe |-> allPredictions[k].tf, datetime |-> datetime,
                      value |-> value, writer |-> "other"]
          IN  /\ database' = Upsert(database, row)
              /\ realtimeEvents' = Append(realtimeEvents, ChangeEvent(database, row))
    /\ UNCHANGED <<allPredictions, fiveTimesDataCache, pendingSaves, loading, callVars, beyondService, invoked>>

\* the channel delivers its oldest event to handleRealtimeUpdate
postgresChanges ==
    /\ realtimeEvents # <<>>
    /\ LET payload == Head(realtimeEvents)
           k == KeyIndex(allPredictions, payload.timeframe)
       IN  IF AcceptsInsert(allPredictions, k, payload)
           THEN /\ allPredictions' = PushNormal(allPredictions, k, payload, DataLimit)
                /\ fiveTimesDataCache' = PushFiveTimes(fiveTimesDataCache, k, payload)
                /\ invoked' = Notified(predictionCallbacks, 1)
           ELSE UNCHANGED <<allPredictions, fiveTimesDataCache, invoked>>
    /\ realtimeEvents' = Tail(realtimeEvents)
    /\ UNCHANGED <<database, pendingSaves, loading, callVars, beyondService>>

\* the query of the load for one timeframe: the rows of value other than 0,
\* oldest first once reversed
fetchAllPredictionsForTimeframe ==
    /\ loading = NULL
    /\ \E k \in WrittenKeys :
          loading' = Some([timeframe |-> allPredictions[k].tf,
                           rows |-> SelectSeq(database, LAMBDA row :
                                        row.timeframe = allPredictions[k].tf /\ row.value # 0)])
    /\ UNCHANGED <<allPredictions, fiveTimesDataCache, database, realtimeEvents,
                   pendingSaves, callVars, beyondService, invoked>>

\* the load assigns the rows it fetched: all of them to the large cache, the
\* most recent ones to the normal cache; nothing is assigned when there are none
loadPredictionsFromDatabase ==
    /\ loading # NULL
    /\ LET k == KeyIndex(allPredictions, loading[1].timeframe)
           chronological == [i \in 1..Len(loading[1].rows) |->
                                [datetime |-> loading[1].rows[i].datetime,
                                 value |-> loading[1].rows[i].value]]
       IN  IF Len(chronological) > 0
           THEN /\ fiveTimesDataCache' = [fiveTimesDataCache EXCEPT ![k].preds = chronological]
                /\ allPredictions' = [allPredictions EXCEPT ![k].preds =
                       SliceLast(chronological, DataLimit)]
           ELSE UNCHANGED <<allPredictions, fiveTimesDataCache>>
    /\ loading' = NULL
    /\ invoked' = Notified(predictionCallbacks, Len(allPredictions))
    /\ UNCHANGED <<database, realtimeEvents, pendingSaves, callVars, beyondService>>

NextService ==
    \/ savePrediction
    \/ savePredictionResumes
    \/ writerStores
    \/ postgresChanges
    \/ fetchAllPredictionsForTimeframe
    \/ loadPredictionsFromDatabase

\* the caches under saves, realtime events and loads in any order
SpecService == Init /\ [][NextService]_vars

-----------------------------------------------------------------------------
(* The kline polling of binanceAPI.ts: a timer that ticks every second, a    *)
(* cycle of fetches at second 0, and the calls that start and stop it         *)

\* the number of polling cycles a behaviour may begin
MaxCycles == 3

Symbols == {"BTCUSDT", "ETHUSDT"}

\* the timeframes a symbol may be polled with, each by the minutes of its interval
TimeframeChoices == {{1}, {5}}

\* the minute of the hour a tick may fall in
Minutes == {4, 5}

\* the map without a key
MapDelete(map, key) == [s \in DOMAIN map \ {key} |-> map[s]]

\* the map with a key added or updated
MapSet(map, key, value) == [s \in DOMAIN map \cup {key} |-> IF s = key THEN value ELSE map[s]]

\* the fetches a tick at that minute collects: one for each timeframe of each
\* symbol whose interval divides the minute
FetchCount(map, minutes) ==
    Cardinality({pair \in (DOMAIN map) \X {1, 5} :
                    pair[2] \in map[pair[1]] /\ minutes % pair[2] = 0})

\* the flag after the finally block of a cycle, released on a failure as well
FlagReleasedOnSuccess(cycle) == cycle.failed

\* the flag after the finally block of a cycle
FlagAfterCycle(cycle) == FALSE

\* the cycles that have begun their fetches and have not finished
CyclesInProgress == {c \in 1..Len(cycles) : cycles[c].pending > 0}

startKlinePolling ==
    /\ \E symbol \in Symbols, activeTimeframes \in TimeframeChoices :
          activeSymbolTimeframes' = MapSet(activeSymbolTimeframes, symbol, activeTimeframes)
    /\ klinePollingInterval' = TRUE
    /\ UNCHANGED <<isKlinePollingInProgress, cycles>>
    /\ UNCHANGED exceptPolling

stopKlinePolling ==
    /\ \E symbol \in Symbols :
          IF symbol \in DOMAIN activeSymbolTimeframes
          THEN /\ activeSymbolTimeframes' = MapDelete(activeSymbolTimeframes, symbol)
               /\ klinePollingInterval' =
                      IF DOMAIN activeSymbolTimeframes = {symbol}
                      THEN FALSE ELSE klinePollingInterval
          ELSE UNCHANGED <<activeSymbolTimeframes, klinePollingInterval>>
    /\ UNCHANGED <<isKlinePollingInProgress, cycles>>
    /\ UNCHANGED exceptPolling

cleanupConnections ==
    /\ klinePollingInterval' = FALSE
    /\ activeSymbolTimeframes' = <<>>
    /\ isKlinePollingInProgress' = FALSE
    /\ UNCHANGED cycles
    /\ UNCHANGED exceptPolling

\* the callback of the interval timer, up to its await: it returns while the
\* flag is set and at every second but 0; else it sets the flag and starts its
\* fetches; a cycle without a fetch runs to its finally block at once
klineTimerTick ==
    /\ klinePollingInterval
    /\ Len(cycles) < MaxCycles
    /\ \E seconds \in {0, 1}, minutes \in Minutes :
          IF isKlinePollingInProgress \/ seconds # 0
          THEN UNCHANGED <<isKlinePollingInProgress, cycles>>
          ELSE LET cycle == [pending |-> FetchCount(activeSymbolTimeframes, minutes),
                             failed |-> FALSE]
               IN  /\ cycles' = Append(cycles, cycle)
                   /\ isKlinePollingInProgress' =
                          IF cycle.pending > 0 THEN TRUE ELSE FlagAfterCycle(cycle)
    /\ UNCHANGED <<klinePollingInterval, activeSymbolTimeframes>>
    /\ UNCHANGED exceptPolling

\* a fetch of a cycle settles: with data, with an error or by its timeout; with
\* the last of them Promise.allSettled resolves and the cycle runs its finally
\* block
fetchSettles ==
    /\ \E c \in CyclesInProgress, outcome \in {"data", "error", "timeout"} :
          LET cycle == [pending |-> cycles[c].pending - 1,
                        failed |-> cycles[c].failed \/ outcome # "data"]
          IN  /\ cycles' = [cycles EXCEPT ![c] = cycle]
              /\ isKlinePollingInProgress' =
                     IF cycle.pending = 0 THEN FlagAfterCycle(cycle)
                     ELSE isKlinePollingInProgress
    /\ UNCHANGED <<klinePollingInterval, activeSymbolTimeframes>>
    /\ UNCHANGED exceptPolling

NextPolling ==
    \/ startKlinePolling
    \/ stopKlinePolling
    \/ cleanupConnections
    \/ klineTimerTick
    \/ fetchSettles

\* the polling under ticks, fetch completions and the three calls in any order
SpecPolling == Init /\ [][NextPolling]_vars

\* the same, where every fetch settles
SpecPollingFair == SpecPolling /\ WF_vars(fetchSettles)

-----------------------------------------------------------------------------
(* The initialisation of the prediction service: initializePredictionService *)
(* and setupRealtimeSubscription, with the load as the service's two actions  *)

\* the number of calls of initializePredictionService in a behaviour
MaxCalls == 4

\* supabase.channel(topic) of the client library: a new channel, or where the
\* library keeps one channel for a topic, the channel of that topic it holds
ClientChannel(held, created, reuse) ==
    IF reuse /\ held # {} THEN CHOOSE ch \in held : TRUE ELSE created + 1

\* initializePredictionService up to its first await: it returns when the
\* service is initialised, awaits the removal of a channel it holds, and else
\* awaits the load
initializePredictionService ==
    /\ Len(initCalls) < MaxCalls
    /\ initCalls' = Append(initCalls,
           IF isInitialized THEN [at |-> "returned", channel |-> NULL]
           ELSE IF realtimeChannel # NULL THEN [at |-> "removing", channel |-> realtimeChannel]
           ELSE [at |-> "loading", channel |-> NULL])
    /\ UNCHANGED <<isInitialized, realtimeChannel, channels, channelsCreated>>
    /\ UNCHANGED exceptInit

\* a call resumes after an await: after the removal it clears realtimeChannel
\* and awaits the load; after the load it sets up the subscription and sets the
\* flag
initializeResumes ==
    /\ \E c \in 1..Len(initCalls), reuse \in BOOLEAN :
          /\ initCalls[c].at # "returned"
          /\ IF initCalls[c].at = "removing"
             THEN /\ channels' = channels \ {initCalls[c].channel[1]}
                  /\ realtimeChannel' = NULL
                  /\ initCalls' = [initCalls EXCEPT ![c] = [at |-> "loading", channel |-> NULL]]
                  /\ UNCHANGED <<isInitialized, channelsCreated>>
             ELSE LET ch == ClientChannel(channels, channelsCreated, reuse)
                  IN  /\ realtimeChannel' = Some(ch)
                      /\ channels' = channels \cup {ch}
                      /\ channelsCreated' = IF ch \in channels THEN channelsCreated
                                            ELSE channelsCreated + 1
                      /\ isInitialized' = TRUE
                      /\ initCalls' = [initCalls EXCEPT ![c] =
                             [at |-> "returned", channel |-> NULL]]
    /\ UNCHANGED exceptInit

NextInit ==
    \/ initializePredictionService
    \/ initializeResumes
    \/ fetchAllPredictionsForTimeframe
    \/ loadPredictionsFromDatabase

\* calls of initializePredictionService in any order, with the queries of the
\* load
SpecInit == Init /\ [][NextInit]_vars

-----------------------------------------------------------------------------
(* The subscribers of the prediction service: subscribeToPredictionUpdates,  *)
(* the function it returns, and setSixteenTimesMode                           *)

\* the number of calls of subscribeToPredictionUpdates in a behaviour
MaxSubscriptions == 2

\* the number of times a returned function may be called
MaxUnsubscribeCalls == 2

\* the functions passed as callbacks
Callbacks == {"onPredictions", "onViewUpdate"}

\* Array.prototype.indexOf: the first position of an element, 0 for none
IndexOf(list, element) ==
    LET hits == {i \in 1..Len(list) : list[i] = element}
    IN  IF hits = {} THEN 0 ELSE FirstOf(hits)

\* splice(index, 1): the list without the element at a position
Splice(list, index) ==
    [i \in 1..(Len(list) - 1) |-> IF i < index THEN list[i] ELSE list[i + 1]]

\* the cache the subscribers are given
CacheToUse == IF currentFiveTimesMode THEN fiveTimesDataCache ELSE allPredictions

\* the callback is registered and called at once for every timeframe whose
\* list is not empty
subscribeToPredictionUpdates ==
    /\ Len(subscriptions) < MaxSubscriptions
    /\ \E callback \in Callbacks :
          /\ predictionCallbacks' = Append(predictionCallbacks, callback)
          /\ subscriptions' = Append(subscriptions, [callback |-> callback, calls |-> 0])
          /\ invoked' = Notified(<<callback>>,
                 Cardinality({k \in 1..Len(CacheToUse) : Len(CacheToUse[k].preds) > 0}))
    /\ UNCHANGED currentFiveTimesMode
    /\ UNCHANGED exceptSubscribers

\* a call of the function a subscription returned: the first registration of
\* its callback is removed, if there is one
unsubscribe ==
    /\ \E n \in 1..Len(subscriptions) :
          /\ subscriptions[n].calls < MaxUnsubscribeCalls
          /\ LET index == IndexOf(predictionCallbacks, subscriptions[n].callback)
             IN  predictionCallbacks' =
                     IF index # 0 THEN Splice(predictionCallbacks, index)
                     ELSE predictionCallbacks
          /\ subscriptions' = [subscriptions EXCEPT ![n].calls = @ + 1]
    /\ invoked' = <<>>
    /\ UNCHANGED currentFiveTimesMode
    /\ UNCHANGED exceptSubscribers

\* the mode is switched and the subscribers are called for every timeframe of
\* the cache; nothing happens when the mode is the current one
setSixteenTimesMode ==
    /\ \E fiveTimesMode \in BOOLEAN :
          IF currentFiveTimesMode # fiveTimesMode
          THEN /\ currentFiveTimesMode' = fiveTimesMode
               /\ invoked' = Notified(predictionCallbacks, Len(allPredictions))
          ELSE UNCHANGED <<currentFiveTimesMode, invoked>>
    /\ UNCHANGED <<predictionCallbacks, subscriptions>>
    /\ UNCHANGED exceptSubscribers

NextSubscribers ==
    \/ subscribeToPredictionUpdates
    \/ unsubscribe
    \/ setSixteenTimesMode
    \/ savePrediction
    \/ postgresChanges
    \/ fetchAllPredictionsForTimeframe
    \/ loadPredictionsFromDatabase

\* subscriptions and their removal among realtime inserts, loads and switches
\* of the mode
SpecSubscribers == Init /\ [][NextSubscribers]_vars

-----------------------------------------------------------------------------
(* The two functions called on lists in any order of time: both are exported  *)
(* and take the lists as they are given                                       *)

\* an entry of any instant is pushed on the list of one timeframe
AddPredictionAnyOrder ==
    /\ pc = "idle"
    /\ TotalEntries(allPredictions) < MaxSignals
    /\ \E k \in 1..Len(allPredictions), v \in Values, t \in 1..MaxTime :
          allPredictions' = [allPredictions EXCEPT
              ![k].preds = Append(@, [datetime |-> t, value |-> v])]
    /\ UNCHANGED <<selectedTimeframes, csvData, pc, sortedTimeframes, initialIndicators,
                   activeChains, allSignals, signalIndex, propagations, trackerResult,
                   firstResult>>
    /\ UNCHANGED <<fiveTimesDataCache, otherVars>>

NextAnyOrder ==
    \/ AddPredictionAnyOrder
    \/ ExtractStart
    \/ ProcessSignal
    \/ ExtractReturn
    \/ TrackerExtract

\* the two functions on feeds whose lists are in any order
SpecAnyOrder == Init /\ [][NextAnyOrder]_vars

-----------------------------------------------------------------------------
(* The chart's view: getPredictionsToDisplay of propagationTracker.ts, called *)
(* on the lists of one ticker as organizePredictionsByTicker groups them       *)

\* the entries of the record as PredictionEntry values: organizePredictionsByTicker
\* lists an entry under its ticker and its timeframeId
PredictionEntries(preds, ticker) ==
    [k \in 1..Len(preds) |->
        [i \in 1..Len(preds[k].preds) |->
            [datetime |-> preds[k].preds[i].datetime, value |-> preds[k].preds[i].value,
             timeframeId |-> preds[k].tf, ticker |-> ticker]]]

\* showAllInsights: every non-zero prediction of the ticker, list after list
AllInsights(preds, ticker) ==
    Flatten([k \in 1..Len(preds) |->
        SelectSeq(PredictionEntries(preds, Ticker)[k],
                  LAMBDA p : p.value # 0 /\ p.ticker = ticker)])

DisplayedIndicator(indicator) ==
    [datetime |-> indicator.datetime, value |-> indicator.trend_type,
     timeframeId |-> indicator.timeframe, ticker |-> indicator.ticker]

\* DisplayedPropagation that names the timeframe the chain came from
DisplayedAtHigherFreq(prop) ==
    [datetime |-> prop.datetime, value |-> prop.trend_type,
     timeframeId |-> prop.higher_freq, ticker |-> prop.ticker]

DisplayedPropagation(prop) ==
    [datetime |-> prop.datetime, value |-> prop.trend_type,
     timeframeId |-> prop.lower_freq, ticker |-> prop.ticker]

getPredictionsToDisplay(preds, ticker, showAllInsights) ==
    IF showAllInsights THEN AllInsights(preds, ticker)
    ELSE LET result == trackerExtractTrendIndicators(preds)
         IN  [i \in 1..Len(result.initialIndicators) |->
                 DisplayedIndicator(result.initialIndicators[i])]
             \o [i \in 1..Len(result.propagations) |->
                    DisplayedPropagation(result.propagations[i])]

\* the chart computes the predictions to show for its symbol
GetPredictionsToDisplay ==
    /\ pc = "idle"
    /\ \E showAllInsights \in BOOLEAN :
          displayPredictions' =
              [showAllInsights |-> showAllInsights,
               shown |-> getPredictionsToDisplay(allPredictions, Ticker, showAllInsights)]
    /\ pc' = "displayed"
    /\ UNCHANGED <<allPredictions, fiveTimesDataCache, selectedTimeframes, csvData,
                   sortedTimeframes, initialIndicators, activeChains, allSignals,
                   signalIndex, propagations, trackerResult, firstResult>>
    /\ UNCHANGED <<serviceVars, pollingVars, initVars, subscriberVars, invoked, priceVars>>

NextDisplay ==
    \/ AddPrediction
    \/ GetPredictionsToDisplay

\* the chart's view of feeds that grow in the order of time
SpecDisplay == Init /\ [][NextDisplay]_vars

-----------------------------------------------------------------------------
(* The memoized price fetch of Dashboard.tsx: getCachedPriceFetch and         *)
(* fetchPriceFromBinance                                                      *)

\* the number of calls of getCachedPriceFetch in a behaviour
MaxPriceCalls == 3

\* the arguments of the calls: ticker, datetime, timeframe
PriceArguments == {"BTCUSDT"} \X (1..MaxTime) \X {Tf1m}

\* the open prices a fetch may find
OpenPrices == {100, 101}

\* the key of the cache: the three arguments joined by "-"
CacheKey(ticker, datetime, timeframe) == <<ticker, "-", datetime, "-">> \o timeframe

\* priceFetchCache.current.has that finds no key
HasNoEntry(cache, cacheKey) == FALSE

\* priceFetchCache.current.has
HasEntry(cache, cacheKey) == cacheKey \in DOMAIN cache

\* what the promise of fetchPriceFromBinance settles with: the price it found,
\* null where it found none or caught an error; it never rejects
FetchResult(found, error) ==
    [status |-> "fulfilled", value |-> IF error THEN NULL ELSE found]

\* getCachedPriceFetch: the promise of the key's entry if the cache has one;
\* else a fetch is started and its promise is stored and returned
getCachedPriceFetch ==
    /\ Len(priceCallers) < MaxPriceCalls
    /\ \E arguments \in PriceArguments :
          LET cacheKey == CacheKey(arguments[1], arguments[2], arguments[3])
              fetchPromise == [fetch |-> Len(priceFetches) + 1, settled |-> NULL]
          IN  IF HasEntry(priceFetchCache, cacheKey)
              THEN /\ priceCallers' = Append(priceCallers,
                          [cacheKey |-> cacheKey, promise |-> priceFetchCache[cacheKey]])
                   /\ UNCHANGED <<priceFetchCache, priceFetches>>
              ELSE /\ priceFetches' = Append(priceFetches,
                          [cacheKey |-> cacheKey, status |-> "pending", value |-> NULL])
                   /\ priceFetchCache' = MapSet(priceFetchCache, cacheKey, fetchPromise)
                   /\ priceCallers' = Append(priceCallers,
                          [cacheKey |-> cacheKey, promise |-> fetchPromise])
    /\ UNCHANGED exceptPrices

\* a fetch settles and the handlers getCachedPriceFetch attached run: the entry
\* becomes a promise resolved with the result, or is deleted on a rejection
fetchPriceFromBinance ==
    /\ \E f \in 1..Len(priceFetches), found \in {NULL} \cup {Some(p) : p \in OpenPrices},
          error \in BOOLEAN :
          LET result == FetchResult(found, error)
              cacheKey == priceFetches[f].cacheKey
          IN  /\ priceFetches[f].status = "pending"
              /\ priceFetches' = [priceFetches EXCEPT ![f].status = result.status,
                                                      ![f].value = result.value]
              /\ priceFetchCache' =
                     IF result.status = "fulfilled"
                     THEN MapSet(priceFetchCache, cacheKey,
                                 [fetch |-> 0, settled |-> Some(result.value)])
                     ELSE MapDelete(priceFetchCache, cacheKey)
    /\ UNCHANGED priceCallers
    /\ UNCHANGED exceptPrices

NextPriceFetch ==
    \/ getCachedPriceFetch
    \/ fetchPriceFromBinance

\* calls of getCachedPriceFetch and the settling of fetches in any order
SpecPriceFetch == Init /\ [][NextPriceFetch]_vars

-----------------------------------------------------------------------------
(* Other inputs of the two functions: the locals before any call, and a feed *)
(* one of whose keys is no duration                                          *)

\* the locals and results before any call
NoCallYet ==
    /\ pc = "idle"
    /\ sortedTimeframes = <<>>
    /\ initialIndicators = <<>>
    /\ activeChains = <<>>
    /\ allSignals = <<>>
    /\ signalIndex = 0
    /\ propagations = <<>>
    /\ trackerResult = [initialIndicators |-> <<>>, propagations |-> <<>>]
    /\ firstResult = NULL

\* a key the regular expression of timeframeToSeconds does not match
TfBad == <<"x">>

MalformedFeed ==
    <<[tf |-> Tf1m, preds |-> <<>>], [tf |-> Tf3m, preds |-> <<>>],
      [tf |-> TfBad, preds |-> <<>>]>>

InitMalformed ==
    /\ allPredictions = MalformedFeed
    /\ selectedTimeframes = <<>>
    /\ csvData = <<>>
    /\ NoCallYet
    /\ ElsewhereIdle

\* both functions called, without a subset, on a record that has a malformed key
SpecMalformed == InitMalformed /\ [][Next]_vars

Tf15m == <<"1", "5", "m">>

\* the subsets a caller passes: none, two ids of the feed in another order
\* than the feed's, and an id the feed does not hold
Subsets == {<<>>, <<Tf5m, Tf1m>>, <<Tf15m>>}

\* a record with no key at all, or the record the caches create
InitSubset ==
    /\ allPredictions \in {<<>>, EmptyFeed}
    /\ selectedTimeframes \in Subsets
    /\ csvData = <<>>
    /\ NoCallYet
    /\ ElsewhereIdle

\* the functions called with and without a subset of timeframes
SpecSubset == InitSubset /\ [][Next]_vars

\* the caller selects a single timeframe of the feed
InitSingle ==
    /\ allPredictions = EmptyFeed
    /\ selectedTimeframes \in {<<Tf1m>>, <<Tf3m>>}
    /\ csvData = <<>>
    /\ NoCallYet
    /\ ElsewhereIdle

\* the functions called with a subset of one timeframe
SpecSingle == InitSingle /\ [][Next]_vars

\* candle lists that hold the open of the first instant, of the second, or both
CandleLists ==
    {<<[time |-> 1, open |-> 100]>>,
     <<[time |-> 2, open |-> 110]>>,
     <<[time |-> 1, open |-> 100], [time |-> 2, open |-> 110]>>}

InitPrices ==
    /\ allPredictions = EmptyFeed
    /\ selectedTimeframes = <<>>
    /\ csvData \in CandleLists
    /\ NoCallYet
    /\ ElsewhereIdle

\* the functions called with candles that cover a part of the feed's instants
SpecPrices == InitPrices /\ [][Next]_vars

-----------------------------------------------------------------------------
(* What the specification says of the ranking (section 4.1): the timeframes of *)
(* the feed that hold at least one non-zero signal, shortest duration first.   *)

NonZero(list) == SelectSeq(list, LAMBDA p : p.value # 0)

HasSignal(preds, tf) == NonZero(Lookup(preds, tf)) # <<>>

RankedTimeframes(preds) ==
    LET tfs == SelectSeq(ObjectKeys(preds), LAMBDA tf : HasSignal(preds, tf))
    IN  StableSort(tfs, [i \in 1..Len(tfs) |-> timeframeToSeconds(tfs[i])])

\* the propagations of a list that carry one id, in the order of the list
WithId(props, id) == SelectSeq(props, LAMBDA p : p.propagation_id = id)

Ids(props) == {props[i].propagation_id : i \in 1..Len(props)}

-----------------------------------------------------------------------------
(* C1 *)

Alternates(indicators) ==
    \A i \in 1..(Len(indicators) - 1) :
        Sign(indicators[i].trend_type) # Sign(indicators[i + 1].trend_type)

\* C1: in the list of InitialIndicators either implementation returns, no two
\* consecutive entries have the same direction (sign), whatever the magnitudes
\* of the rank-0 signals.
C1_Alternation ==
    /\ pc = "done" => Alternates(initialIndicators)
    /\ pc = "tracked" => Alternates(trackerResult.initialIndicators)

-----------------------------------------------------------------------------
(* C2 *)

\* the k-th propagation of a chain goes from rank k - 1 to rank k
RankMonotonic(props, ranked) ==
    \A id \in Ids(props) :
        LET own == WithId(props, id)
        IN  \A k \in 1..Len(own) :
                /\ k + 1 <= Len(ranked)
                /\ own[k].lower_freq = ranked[k + 1]
                /\ own[k].higher_freq = ranked[k]

\* C2: for every chain id, the Propagations emitted with that id, in emission
\* order, have lower_freq of rank 1, 2, 3, ... and higher_freq exactly one rank
\* below; this holds of the scan at every step and of the simpler variant.
C2_RankMonotonic ==
    /\ RankMonotonic(propagations, RankedTimeframes(allPredictions))
    /\ RankMonotonic(trackerResult.propagations, RankedTimeframes(allPredictions))

\* a chain of the scan has advanced twice, at an instant after its start
C2_Witness ==
    /\ pc = "done"
    /\ \E i, j \in 1..Len(propagations) :
          /\ i < j
          /\ propagations[i].propagation_id = propagations[j].propagation_id
          /\ propagations[j].lower_freq = Tf5m

-----------------------------------------------------------------------------
(* C3 *)

\* the indicator that created the chain a propagation names
Initiator(indicators, prop) == indicators[prop.propagation_id[2]]

WindowContains(indicators, props) ==
    \A i \in 1..Len(props) :
        /\ props[i].propagation_id[2] \in 1..Len(indicators)
        /\ Initiator(indicators, props[i]).end_datetime # NULL
        /\ Initiator(indicators, props[i]).datetime <= props[i].datetime
        /\ props[i].datetime <= Initiator(indicators, props[i]).end_datetime[1]

\* C3: every emitted Propagation has a datetime between the datetime and the
\* end_datetime of the InitialIndicator that created its chain, both inclusive.
C3_WindowContainment ==
    /\ WindowContains(initialIndicators, propagations)
    /\ WindowContains(trackerResult.initialIndicators, trackerResult.propagations)

\* a propagation strictly after the start of its window, in a feed that also
\* holds a same-sign signal of the next rank after the end of a window
C3_Witness ==
    /\ pc = "done"
    /\ \E i \in 1..Len(propagations) :
          Initiator(initialIndicators, propagations[i]).datetime < propagations[i].datetime

-----------------------------------------------------------------------------
(* C4, C5: one step of the scan, seen from one chain *)

\* the scan is about to process a signal
Scanning == pc = "scan" /\ signalIndex <= Len(allSignals)

\* the chain is active, the signal lies in its window and on its next expected rank
Meets(chain, signal) ==
    /\ chain.isActive
    /\ chain.initialDatetime <= signal.datetime
    /\ signal.datetime <= chain.endDatetime
    /\ signal.timeframeIndex = chain.nextExpectedTimeframeIndex

\* C4: when an active chain meets, inside its window, a signal on its next
\* expected rank whose sign is opposite to its direction (whatever the
\* magnitude), the step leaves the chain inactive and emits no Propagation
\* with its id; and a chain that is inactive gets no Propagation from any
\* later signal.
C4_OpposingInvalidates ==
    [][Scanning =>
        \A c \in 1..Len(activeChains) :
            LET chain == activeChains[c]
                signal == allSignals[signalIndex]
            IN  /\ (Meets(chain, signal) /\ Sign(signal.value) = -Sign(chain.trendType))
                      => /\ ~activeChains'[c].isActive
                         /\ WithId(propagations', chain.chainId) =
                                WithId(propagations, chain.chainId)
                /\ ~chain.isActive
                      => /\ ~activeChains'[c].isActive
                         /\ WithId(propagations', chain.chainId) =
                                WithId(propagations, chain.chainId)]_vars

\* C5: when an active chain meets, inside its window, a signal on its next
\* expected rank whose sign equals its direction (magnitudes may differ), the
\* step emits exactly one Propagation with the chain's id: level one above the
\* chain's, the signal's datetime, higher_freq the chain's timeframe before
\* the step and lower_freq the signal's timeframe.
C5_SameSignPropagates ==
    [][Scanning =>
        \A c \in 1..Len(activeChains) :
            LET chain == activeChains[c]
                signal == allSignals[signalIndex]
                before == WithId(propagations, chain.chainId)
                after == WithId(propagations', chain.chainId)
            IN  (Meets(chain, signal) /\ Sign(signal.value) = Sign(chain.trendType))
                  => /\ Len(after) = Len(before) + 1
                     /\ SubSeq(after, 1, Len(before)) = before
                     /\ after[Len(after)].propagation_level = chain.propagationLevel + 1
                     /\ after[Len(after)].datetime = signal.datetimeString
                     /\ after[Len(after)].higher_freq =
                            sortedTimeframes[chain.currentTimeframeIndex + 1]
                     /\ after[Len(after)].lower_freq = signal.timeframe]_vars

-----------------------------------------------------------------------------
(* C6, C7: the indicators the specification describes (section 4.2) *)

\* the non-zero signals of a timeframe in the order of time
SortedSignals(preds, tf) ==
    LET signals == NonZero(Lookup(preds, tf))
    IN  StableSort(signals, [i \in 1..Len(signals) |-> signals[i].datetime])

\* the first signal of every maximal same-sign run
RunStarts(signals) ==
    LET starts == {i \in 1..Len(signals) :
                      i = 1 \/ Sign(signals[i].value) # Sign(signals[i - 1].value)}
        nth(k) == CHOOSE i \in starts : Cardinality({j \in starts : j < i}) = k - 1
    IN  [k \in 1..Cardinality(starts) |-> signals[nth(k)]]

ExpectedIndicators(preds) ==
    LET ranked == RankedTimeframes(preds)
    IN  IF ranked = <<>> THEN <<>>
        ELSE LET starts == RunStarts(SortedSignals(preds, ranked[1]))
             IN  [k \in 1..Len(starts) |->
                     [datetime |-> starts[k].datetime,
                      direction |-> Sign(starts[k].value),
                      timeframe |-> ranked[1]]]

\* what an implementation returned, with the direction read off as a sign
ReturnedIndicators(indicators) ==
    [k \in 1..Len(indicators) |->
        [datetime |-> indicators[k].datetime,
         direction |-> Sign(indicators[k].trend_type),
         timeframe |-> indicators[k].timeframe]]

\* a feed on which the ranking is not in question: no entry of value 0, and
\* the shortest timeframe of the feed holds a signal
PlainFeed(preds) ==
    /\ \A i \in 1..Len(AllEntries(preds)) : AllEntries(preds)[i].value # 0
    /\ RankedTimeframes(preds) # <<>>
    /\ RankedTimeframes(preds)[1] = SortTimeframes(preds, <<>>)[1]

\* C6: the InitialIndicators are exactly the first signals of the maximal
\* same-sign runs of the time-sorted non-zero rank-0 signals, one per run in
\* ascending order of datetime, with the sign as direction and the rank-0
\* timeframe; a same-sign repeat of another magnitude produces no indicator.
\* Stated of the feeds that hold no entry of value 0 and whose shortest
\* timeframe holds a signal.
C6_IndicatorsAreRunStarts ==
    PlainFeed(allPredictions) =>
        /\ pc = "done" =>
              ReturnedIndicators(initialIndicators) = ExpectedIndicators(allPredictions)
        /\ pc = "tracked" =>
              ReturnedIndicators(trackerResult.initialIndicators) =
                  ExpectedIndicators(allPredictions)

\* the end of the run an indicator starts: the earliest later signal of the
\* opposite sign, or else the last signal of the timeframe
ExpectedEnd(preds, indicator) ==
    LET signals == SortedSignals(preds, indicator.timeframe)
        opposing == {i \in 1..Len(signals) :
                        /\ signals[i].datetime > indicator.datetime
                        /\ Sign(signals[i].value) = -Sign(indicator.trend_type)}
    IN  IF opposing # {}
        THEN signals[FirstOf(opposing)].datetime
        ELSE signals[Len(signals)].datetime

EndsAsExpected(preds, indicators) ==
    \A k \in 1..Len(indicators) :
        indicators[k].end_datetime = Some(ExpectedEnd(preds, indicators[k]))

\* C7: the end_datetime of every InitialIndicator is the datetime of the
\* earliest rank-0 signal strictly later than the indicator with the opposite
\* sign (any magnitude), and when there is none the datetime of the
\* chronologically last signal of the rank-0 timeframe. Stated of the feeds
\* that hold no entry of value 0 and whose shortest timeframe holds a signal.
C7_EndDatetime ==
    PlainFeed(allPredictions) =>
        /\ pc = "done" => EndsAsExpected(allPredictions, initialIndicators)
        /\ pc = "tracked" => EndsAsExpected(allPredictions, trackerResult.initialIndicators)

-----------------------------------------------------------------------------
(* C8 *)

Returned == [initialIndicators |-> initialIndicators, propagations |-> propagations]

\* C8: a second call of extractTrendIndicators on the same snapshot returns the
\* lists the first call returned, element for element and in the same order.
C8_Idempotent ==
    (pc = "done" /\ firstResult # NULL) => Returned = firstResult[1]

\* a second call has returned, and the lists hold an indicator and a propagation
C8_Witness ==
    /\ pc = "done"
    /\ firstResult # NULL
    /\ Len(initialIndicators) >= 1
    /\ Len(propagations) >= 1

-----------------------------------------------------------------------------
(* C9, C10: what the outputs may depend on *)

\* the feed without its entries of value 0
StripZeros(preds) ==
    [i \in 1..Len(preds) |-> [tf |-> preds[i].tf, preds |-> NonZero(preds[i].preds)]]

\* the feed without the timeframes that hold no signal
DropSignalless(preds) == SelectSeq(preds, LAMBDA e : NonZero(e.preds) # <<>>)

\* C9: entries of value 0 added to any list of the feed leave both outputs of
\* extractTrendIndicators unchanged, end_datetime included: the call returns
\* what it returns on the feed without them.
C9_ZerosIgnored ==
    pc = "done" =>
        Returned = extractTrendIndicators(StripZeros(allPredictions), selectedTimeframes, csvData)

\* C10: a timeframe whose list is empty or holds no non-zero signal receives no
\* rank: both implementations return what they return on the feed without it,
\* so the indicators are those of the shortest timeframe that has a signal and
\* a signal-less timeframe between two populated ones blocks no propagation.
C10_SignallessUnranked ==
    /\ pc = "done" =>
          Returned = extractTrendIndicators(DropSignalless(allPredictions),
                                            selectedTimeframes, csvData)
    /\ pc = "tracked" =>
          trackerResult = trackerExtractTrendIndicators(DropSignalless(allPredictions))

-----------------------------------------------------------------------------
(* C11 *)

\* the feed without the keys that cannot be parsed as a duration
DropMalformed(preds) == SelectSeq(preds, LAMBDA e : RegexSplits(e.tf) # {})

\* the timeframe ids a result names
NamedTimeframes(result) ==
    {result.initialIndicators[i].timeframe : i \in 1..Len(result.initialIndicators)}
    \cup {result.propagations[i].higher_freq : i \in 1..Len(result.propagations)}
    \cup {result.propagations[i].lower_freq : i \in 1..Len(result.propagations)}

\* C11: a timeframe id that cannot be parsed as a duration takes no part in
\* the ranking: no output names it as timeframe, higher_freq or lower_freq, and
\* the call returns what it returns on the feed without that key.
C11_MalformedExcluded ==
    /\ pc = "done" =>
          /\ \A tf \in NamedTimeframes(Returned) : RegexSplits(tf) # {}
          /\ Returned = extractTrendIndicators(DropMalformed(allPredictions),
                                               selectedTimeframes, csvData)
    /\ pc = "tracked" =>
          /\ \A tf \in NamedTimeframes(trackerResult) : RegexSplits(tf) # {}
          /\ trackerResult = trackerExtractTrendIndicators(DropMalformed(allPredictions))

-----------------------------------------------------------------------------
(* C12 *)

\* the signal is not on the chain's next expected rank, or not in its window
Misses(chain, signal) ==
    \/ signal.timeframeIndex # chain.nextExpectedTimeframeIndex
    \/ signal.datetime < chain.initialDatetime
    \/ signal.datetime > chain.endDatetime

\* C12: a step of the scan whose signal is on another rank than a chain's next
\* expected rank, or outside the chain's window, leaves that chain's state
\* (current rank, next expected rank, level, active flag) as it was and emits
\* no Propagation with its id, whatever the signal's sign and rank.
C12_MisrankedIgnored ==
    [][Scanning =>
        \A c \in 1..Len(activeChains) :
            Misses(activeChains[c], allSignals[signalIndex])
              => /\ activeChains'[c] = activeChains[c]
                 /\ WithId(propagations', activeChains[c].chainId) =
                        WithId(propagations, activeChains[c].chainId)]_vars

\* the scan is over: a chain that never advanced is still active, and the
\* signals held one of its own value, inside its window, two ranks ahead
C12_Witness ==
    /\ pc = "done"
    /\ \E c \in 1..Len(activeChains), i \in 1..Len(allSignals) :
          /\ activeChains[c].isActive
          /\ activeChains[c].nextExpectedTimeframeIndex = 1
          /\ allSignals[i].timeframeIndex = 2
          /\ allSignals[i].value = activeChains[c].trendType
          /\ activeChains[c].initialDatetime <= allSignals[i].datetime
          /\ allSignals[i].datetime <= activeChains[c].endDatetime

-----------------------------------------------------------------------------
(* C13 *)

\* the lowest-frequency timeframe of the ranking of section 4.1
LastRanked(preds) == RankedTimeframes(preds)[Len(RankedTimeframes(preds))]

\* C13: the active flag of a chain only goes from true to false. A step in
\* which a chain propagates onto the lowest-frequency ranked timeframe leaves
\* it inactive, and a step that finds a chain inactive leaves its state as it
\* was and emits no Propagation with its id.
C13_ActiveOnlyFalls ==
    [][Scanning =>
        \A c \in 1..Len(activeChains) :
            LET chain == activeChains[c]
                before == WithId(propagations, chain.chainId)
                after == WithId(propagations', chain.chainId)
            IN  /\ ~chain.isActive => (activeChains'[c] = chain /\ after = before)
                /\ (/\ Len(after) > Len(before)
                    /\ after[Len(after)].lower_freq = LastRanked(allPredictions))
                      => ~activeChains'[c].isActive]_vars

-----------------------------------------------------------------------------
(* C14 *)

\* every order in which the entries of a list can be supplied
ListOrders(list) ==
    IF list = <<>> THEN {<<>>}
    ELSE {[i \in 1..Len(list) |-> list[f[i]]] : f \in Permutations(1..Len(list))}

\* every feed that holds the same entries under the same keys
RECURSIVE FeedOrders(_)
FeedOrders(preds) ==
    IF preds = <<>> THEN {<<>>}
    ELSE {<<[tf |-> Head(preds).tf, preds |-> list]>> \o rest :
              list \in ListOrders(Head(preds).preds), rest \in FeedOrders(Tail(preds))}

\* no list names an instant twice
DistinctTimes(preds) ==
    \A k \in 1..Len(preds) :
        \A i, j \in 1..Len(preds[k].preds) :
            i # j => preds[k].preds[i].datetime # preds[k].preds[j].datetime

\* C14: when the entries of every list have distinct timestamps, the lists the
\* chronological scan returns do not depend on the order of the entries within
\* the lists: every reordering of the feed yields the same InitialIndicators
\* and the same Propagations.
C14_OrderInvariant ==
    (pc = "done" /\ DistinctTimes(allPredictions)) =>
        \A other \in FeedOrders(allPredictions) :
            extractTrendIndicators(other, selectedTimeframes, csvData) = Returned

\* a call has returned two indicators and a propagation on a feed whose
\* rank-0 list can be supplied in another order
C14_Witness ==
    /\ pc = "done"
    /\ DistinctTimes(allPredictions)
    /\ Len(Lookup(allPredictions, Tf1m)) >= 2
    /\ Len(initialIndicators) >= 2
    /\ Len(propagations) >= 1

-----------------------------------------------------------------------------
(* C15 *)

\* two records of one signal: the same instant on the same timeframe
SameSignal(p, q) == p.datetime = q.datetime /\ p.lower_freq = q.lower_freq

\* C15: the Propagation list of the chronological scan is in emission order:
\* datetimes never decrease along the list, and two Propagations produced by
\* the same signal appear in the order in which their chains were created.
C15_EmissionOrder ==
    \A i, j \in 1..Len(propagations) :
        i < j =>
            /\ propagations[i].datetime <= propagations[j].datetime
            /\ SameSignal(propagations[i], propagations[j])
                  => propagations[i].propagation_id[2] < propagations[j].propagation_id[2]

\* one signal has made two chains propagate
C15_Witness ==
    /\ pc = "done"
    /\ \E i, j \in 1..Len(propagations) :
          /\ i < j
          /\ SameSignal(propagations[i], propagations[j])
          /\ propagations[i].propagation_id # propagations[j].propagation_id

-----------------------------------------------------------------------------
(* C16 *)

\* C16: the chains are Chain_1 .. Chain_N, the k-th made from the k-th
\* InitialIndicator of the returned list, with no gap; every Propagation
\* carries an id Chain_k with 1 <= k <= N and the trend_type of the k-th
\* InitialIndicator, the entry the dashboard looks up from the id.
C16_ChainIds ==
    /\ pc \in {"scan", "done"} =>
          /\ Len(activeChains) = Len(initialIndicators)
          /\ \A k \in 1..Len(activeChains) :
                /\ activeChains[k].chainId = <<"Chain_", k>>
                /\ activeChains[k].initialDatetime =
                       parseDateTime(initialIndicators[k].datetime)
    /\ \A i \in 1..Len(propagations) :
          /\ propagations[i].propagation_id[1] = "Chain_"
          /\ propagations[i].propagation_id[2] \in 1..Len(initialIndicators)
          /\ propagations[i].trend_type =
                 initialIndicators[propagations[i].propagation_id[2]].trend_type

\* a call has returned a Propagation of the second of its chains
C16_Witness ==
    /\ pc = "done"
    /\ Len(initialIndicators) >= 2
    /\ \E i \in 1..Len(propagations) : propagations[i].propagation_id = <<"Chain_", 2>>

-----------------------------------------------------------------------------
(* C17 *)

\* the records of every id carry the levels 1, 2, ... in the order of the list
LevelsCount(props) ==
    \A id \in Ids(props) :
        \A k \in 1..Len(WithId(props, id)) : WithId(props, id)[k].propagation_level = k

\* C17: for every chain id, the propagation_level values of its Propagations
\* in emission order are exactly 1, 2, ..., k: the level of a record is the
\* number of rank advances the chain has made up to and including it. Stated
\* of the scan at every step and of what the simpler variant returns.
C17_LevelsCount ==
    /\ LevelsCount(propagations)
    /\ LevelsCount(trackerResult.propagations)

\* the scan has returned a record of level 2
C17_Witness ==
    /\ pc = "done"
    /\ \E i \in 1..Len(propagations) : propagations[i].propagation_level = 2

-----------------------------------------------------------------------------
(* C18 *)

\* no key of the feed takes part: there is none, or the subset names none
NoKeyTakesPart(preds, selected) ==
    \/ preds = <<>>
    \/ selected # <<>> /\ \A k \in 1..Len(preds) : ~SeqContains(selected, preds[k].tf)

\* every entry of every list has value 0
AllZero(preds) == \A i \in 1..Len(AllEntries(preds)) : AllEntries(preds)[i].value = 0

NoOutput(result) == result.initialIndicators = <<>> /\ result.propagations = <<>>

\* C18: when no timeframe is ranked (a feed without keys, or a subset that
\* shares no id with the feed) or when every entry of every timeframe has
\* value 0, the call returns an empty InitialIndicator list and an empty
\* Propagation list.
C18_EmptyOutputs ==
    /\ (pc = "done" /\ (NoKeyTakesPart(allPredictions, selectedTimeframes)
                        \/ AllZero(allPredictions)))
          => NoOutput(Returned)
    /\ (pc = "tracked" /\ (allPredictions = <<>> \/ AllZero(allPredictions)))
          => NoOutput(trackerResult)

\* the scan has returned on a feed that holds three entries, all of value 0
C18_Witness ==
    /\ pc = "done"
    /\ TotalEntries(allPredictions) = 3
    /\ AllZero(allPredictions)
    /\ NoOutput(Returned)

-----------------------------------------------------------------------------
(* C19 *)

\* the feed restricted to the ids of a subset
Restrict(preds, selected) == SelectSeq(preds, LAMBDA e : SeqContains(selected, e.tf))

\* C19: with a non-empty subset S the call returns what it returns, without a
\* subset, on the feed restricted to the ids of S, and names no timeframe
\* outside S; without a subset every key of the feed takes part in the
\* ranking.
C19_SubsetRestricts ==
    /\ (pc = "done" /\ selectedTimeframes # <<>>) =>
          /\ Returned = extractTrendIndicators(Restrict(allPredictions, selectedTimeframes),
                                               <<>>, csvData)
          /\ \A tf \in NamedTimeframes(Returned) : SeqContains(selectedTimeframes, tf)
    /\ (pc = "done" /\ selectedTimeframes = <<>>) =>
          \A k \in 1..Len(allPredictions) : SeqContains(sortedTimeframes, allPredictions[k].tf)

\* with the subset {5m, 1m} and a signal on 3m, the chain of 1m has
\* propagated onto 5m
C19_Witness ==
    /\ pc = "done"
    /\ selectedTimeframes = <<Tf5m, Tf1m>>
    /\ HasSignal(allPredictions, Tf3m)
    /\ \E i \in 1..Len(propagations) :
          propagations[i].higher_freq = Tf1m /\ propagations[i].lower_freq = Tf5m

-----------------------------------------------------------------------------
(* C20 *)

\* the candles hold an open price for the instant
Resolved(candles, datetime) ==
    \E i \in 1..Len(candles) : candles[i].time = parseDateTime(datetime) \div 1000

\* C20: when the open price of the initiator or the open price at the
\* Propagation's datetime cannot be resolved, the Propagation's directional
\* change is neither 0 nor the number computed with the placeholder price 0
\* (-100 percent of a resolved initial price).
C20_UnresolvedUnavailable ==
    \A i \in 1..Len(propagations) :
        LET prop == propagations[i]
            initiator == Initiator(initialIndicators, prop)
        IN  (~Resolved(csvData, initiator.datetime) \/ ~Resolved(csvData, prop.datetime))
              => /\ prop.directional_change_percent.num # 0
                 /\ prop.directional_change_percent # DirectionalChange(0, initiator.open_price)

-----------------------------------------------------------------------------
(* C21 *)

\* a result without its prices and percent changes
WithoutPrices(result) ==
    [initialIndicators |->
         [i \in 1..Len(result.initialIndicators) |->
             [datetime |-> result.initialIndicators[i].datetime,
              trend_type |-> result.initialIndicators[i].trend_type,
              timeframe |-> result.initialIndicators[i].timeframe,
              end_datetime |-> result.initialIndicators[i].end_datetime]],
     propagations |->
         [i \in 1..Len(result.propagations) |->
             [propagation_id |-> result.propagations[i].propagation_id,
              propagation_level |-> result.propagations[i].propagation_level,
              datetime |-> result.propagations[i].datetime,
              trend_type |-> result.propagations[i].trend_type,
              higher_freq |-> result.propagations[i].higher_freq,
              lower_freq |-> result.propagations[i].lower_freq]]]

\* C21: two runs on the same feed and subset with different candlestick data
\* return lists that agree, in the same order, on every field other than the
\* prices and percent changes: what the call returned agrees with what it
\* returns with no candles and with every other candle list.
C21_PricesDoNotDecide ==
    pc = "done" =>
        \A candles \in CandleLists \cup {<<>>} :
            WithoutPrices(extractTrendIndicators(allPredictions, selectedTimeframes, candles))
                = WithoutPrices(Returned)

\* a call has returned a propagation whose price and initial price were found
C21_Witness ==
    /\ pc = "done"
    /\ \E i \in 1..Len(propagations) :
          /\ propagations[i].open_price # 0
          /\ Initiator(initialIndicators, propagations[i]).open_price # 0
          /\ propagations[i].directional_change_percent.num # 0

-----------------------------------------------------------------------------
(* C22 *)

\* C22: no step of a call of either function changes an argument: the feed
\* (its keys, their order, every list and the order of its entries), the
\* subset and the candlestick array are after the step what they were before.
C22_ArgumentsUnchanged ==
    [][(pc # "idle" \/ pc' # "idle")
          => UNCHANGED <<allPredictions, selectedTimeframes, csvData>>]_vars

\* the scan has returned after sorting the timeframes into another order than
\* that of the feed's keys
C22_Witness ==
    /\ pc = "done"
    /\ sortedTimeframes # ObjectKeys(allPredictions)
    /\ Len(sortedTimeframes) = Len(allPredictions)
    /\ Len(initialIndicators) >= 1

-----------------------------------------------------------------------------
(* C23 *)

\* C23: after any sequence of savePrediction calls, realtime events and loads,
\* no entry of the normal cache or of the large cache has value 0, and no row
\* that savePrediction wrote has value 0: a value that rounds to 0 reaches
\* neither the table nor a cache.
C23_NoZeroCached ==
    /\ \A i \in 1..Len(AllEntries(allPredictions)) : AllEntries(allPredictions)[i].value # 0
    /\ \A i \in 1..Len(AllEntries(fiveTimesDataCache)) :
          AllEntries(fiveTimesDataCache)[i].value # 0
    /\ \A i \in 1..Len(database) :
          database[i].writer = "savePrediction" => database[i].value # 0

\* the table holds a row of value 0 whose event has been delivered, next to a
\* saved row that both caches hold
C23_Witness ==
    /\ \E i \in 1..Len(database) : database[i].value = 0
    /\ \E i \in 1..Len(database) : database[i].writer = "savePrediction"
    /\ realtimeEvents = <<>>
    /\ pendingSaves = {}
    /\ loading = NULL
    /\ TotalEntries(allPredictions) >= 1
    /\ TotalEntries(fiveTimesDataCache) >= 1

-----------------------------------------------------------------------------
(* C25 *)

\* C25: under every interleaving of savePrediction completions and realtime
\* INSERT events on one (ticker, timeframe), the cut of the normal cache to
\* its limit included, neither cache holds two entries with the same datetime.
C25_NoDuplicateDatetime ==
    /\ DistinctTimes(allPredictions)
    /\ DistinctTimes(fiveTimesDataCache)

-----------------------------------------------------------------------------
(* C24 *)

\* the instants of the signals of a list that have a sign and lie in [from, to]
CandidateTimes(list, sign, from, to) ==
    {list[i].datetime : i \in {j \in 1..Len(list) :
        Sign(list[j].value) = sign /\ from <= list[j].datetime /\ list[j].datetime <= to}}

Earliest(times) == CHOOSE t \in times : \A u \in times : t <= u

\* the highest-frequency list holds a signal of the opposite sign in (from, to]
Opposed(list, sign, from, to) ==
    \E i \in 1..Len(list) :
        Sign(list[i].value) = -sign /\ from < list[i].datetime /\ list[i].datetime <= to

\* the records of one chain are the steps the rule allows, and the chain ended
\* for one of the reasons the rule gives
ChainFollowsRule(preds, tfs, indicator, own) ==
    LET sign == indicator.trend_type
        end == indicator.end_datetime[1]
        at(k) == IF k = 0 THEN indicator.datetime ELSE own[k].datetime
        times(k) == CandidateTimes(Lookup(preds, tfs[k + 1]), sign, at(k - 1), end)
        allowed(k) == /\ times(k) # {}
                      /\ ~Opposed(Lookup(preds, tfs[1]), sign, at(k - 1), Earliest(times(k)))
    IN  /\ Len(own) < Len(tfs)
        /\ \A k \in 1..Len(own) :
              /\ allowed(k)
              /\ own[k].lower_freq = tfs[k + 1]
              /\ own[k].datetime = Earliest(times(k))
        /\ Len(own) + 1 < Len(tfs) => ~allowed(Len(own) + 1)

\* C24: in the simpler variant the candidate for a chain's next step is the
\* first same-sign signal of the next timeframe with time in [the chain's
\* current datetime, the end of the window]; it is emitted only if the
\* highest-frequency timeframe has no opposite-sign signal with time in (the
\* chain's current datetime, the candidate's datetime]; otherwise, or without
\* a candidate, the chain ends and no longer timeframe is examined for it.
C24_TrackerSteps ==
    pc = "tracked" =>
        \A n \in 1..Len(trackerResult.initialIndicators) :
            ChainFollowsRule(allPredictions, TrackerSortTimeframes(allPredictions),
                             trackerResult.initialIndicators[n],
                             WithId(trackerResult.propagations, PropId(n)))

\* a chain of the variant has taken one step and has ended before a candidate
\* of the next timeframe, because the highest-frequency timeframe turned
C24_Witness ==
    /\ pc = "tracked"
    /\ Len(trackerResult.initialIndicators) >= 2
    /\ Len(WithId(trackerResult.propagations, PropId(1))) = 1
    /\ WithId(trackerResult.propagations, PropId(1))[1].lower_freq = Tf3m
    /\ CandidateTimes(Lookup(allPredictions, Tf5m), trackerResult.initialIndicators[1].trend_type,
                      WithId(trackerResult.propagations, PropId(1))[1].datetime,
                      trackerResult.initialIndicators[1].end_datetime[1]) # {}

-----------------------------------------------------------------------------
(* C26 *)

\* C26: whatever the order of timer ticks, fetch completions and calls of
\* startKlinePolling, stopKlinePolling and cleanupConnections, at most one
\* polling cycle is in progress at a time: no cycle starts its fetches while
\* an earlier cycle has not finished.
C26_OneCycleAtATime == Cardinality(CyclesInProgress) <= 1

-----------------------------------------------------------------------------
(* C27 *)

\* C27: every polling cycle that sets isKlinePollingInProgress resets it in the
\* end, whether its fetches succeed, fail or time out: where every fetch
\* settles, a cycle in progress finishes and a flag that is set is cleared, so
\* that a later tick at second 0 can start a cycle.
C27_FlagReleased ==
    /\ isKlinePollingInProgress ~> ~isKlinePollingInProgress
    /\ \A c \in 1..MaxCycles : (c \in CyclesInProgress) ~> (c \notin CyclesInProgress)

\* a cycle one of whose fetches failed or timed out has finished, and the flag
\* is clear
C27_Witness ==
    /\ ~isKlinePollingInProgress
    /\ \E c \in 1..Len(cycles) : cycles[c].pending = 0 /\ cycles[c].failed

-----------------------------------------------------------------------------
(* C28 *)

\* C28: whatever the order of the steps of calls of initializePredictionService,
\* a second call that begins while the first awaits the load included, at most
\* one realtime channel exists that was created and not removed, and it is the
\* one held in realtimeChannel.
C28_OneChannel ==
    /\ Cardinality(channels) <= 1
    /\ \A ch \in channels : realtimeChannel = Some(ch)

-----------------------------------------------------------------------------
(* C29 *)

\* the registrations of a callback
Registrations(callback) ==
    Cardinality({i \in 1..Len(predictionCallbacks) : predictionCallbacks[i] = callback})

\* the subscriptions of a callback whose returned function was called a number
\* of times in a set
SubscriptionsOf(callback, calls) ==
    {n \in 1..Len(subscriptions) :
        subscriptions[n].callback = callback /\ subscriptions[n].calls \in calls}

\* C29: the function subscribeToPredictionUpdates returns removes that one
\* registration of the callback and no other subscriber's, and a second call of
\* it changes nothing: every subscription whose function was not called keeps
\* its registration; and once it has run, a callback registered once is not
\* called by a later realtime insert, load or switch of the mode.
C29_Unsubscribe ==
    \A callback \in Callbacks :
        /\ Registrations(callback) = Cardinality(SubscriptionsOf(callback, {0}))
        /\ (/\ Cardinality(SubscriptionsOf(callback, 0..MaxUnsubscribeCalls)) = 1
            /\ SubscriptionsOf(callback, {0}) = {})
           => ~SeqContains(invoked, callback)

-----------------------------------------------------------------------------
(* C30 *)

\* the fetches started for a key
FetchesOf(cacheKey) == {f \in 1..Len(priceFetches) : priceFetches[f].cacheKey = cacheKey}

\* what a caller receives from the promise it was given: the state of the
\* fetch behind it, or the value the promise was resolved with
Received(caller) ==
    IF caller.promise.settled # NULL
    THEN [status |-> "fulfilled", value |-> caller.promise.settled[1]]
    ELSE [status |-> priceFetches[caller.promise.fetch].status,
          value |-> priceFetches[caller.promise.fetch].value]

\* C30: for calls of getCachedPriceFetch with the same ticker, datetime and
\* timeframe in any order, the fetch is started at most once as long as the
\* key's entry stays in the cache, every caller receives the result of that one
\* fetch, and the entry is removed only when the fetch rejects.
C30_OneFetch ==
    \A arguments \in PriceArguments :
        LET cacheKey == CacheKey(arguments[1], arguments[2], arguments[3])
            rejected == {f \in FetchesOf(cacheKey) : priceFetches[f].status = "rejected"}
        IN  /\ Cardinality(FetchesOf(cacheKey) \ rejected) <= 1
            /\ (FetchesOf(cacheKey) # {} /\ cacheKey \notin DOMAIN priceFetchCache)
                   => FetchesOf(cacheKey) = rejected
            /\ \A c \in 1..Len(priceCallers) :
                   priceCallers[c].cacheKey = cacheKey =>
                       \E f \in FetchesOf(cacheKey) :
                           Received(priceCallers[c]) =
                               [status |-> priceFetches[f].status,
                                value |-> priceFetches[f].value]

\* three calls with the same arguments, before and after the fetch settled
\* with a price, and a single fetch
C30_Witness ==
    \E arguments \in PriceArguments :
        LET cacheKey == CacheKey(arguments[1], arguments[2], arguments[3])
        IN  /\ Cardinality({c \in 1..Len(priceCallers) :
                   priceCallers[c].cacheKey = cacheKey /\ priceCallers[c].promise.settled = NULL}) >= 2
            /\ \E c \in 1..Len(priceCallers) :
                   priceCallers[c].cacheKey = cacheKey /\ priceCallers[c].promise.settled # NULL
                   /\ Received(priceCallers[c]).value # NULL
            /\ Cardinality(FetchesOf(cacheKey)) = 1

-----------------------------------------------------------------------------
(* C31 *)

\* the window of every indicator of a list has an end, not before its start
WindowsNonEmpty(indicators) ==
    \A i \in 1..Len(indicators) :
        /\ indicators[i].end_datetime # NULL
        /\ parseDateTime(indicators[i].end_datetime[1]) >= parseDateTime(indicators[i].datetime)

\* C31: for every InitialIndicator either variant returns, end_datetime is not
\* null and not earlier than the indicator's datetime, so that the window of
\* every chain is non-empty, whatever the order of the input lists.
C31_WindowsNonEmpty ==
    /\ pc = "done" => WindowsNonEmpty(initialIndicators)
    /\ pc = "tracked" => WindowsNonEmpty(trackerResult.initialIndicators)

-----------------------------------------------------------------------------
(* C32 *)

\* C32: for every pair of consecutive InitialIndicators the end_datetime of the
\* earlier one is the datetime of the later one, so that the windows of the
\* chains tile the time line and meet only at their boundary instants; for
\* signal values of any non-zero magnitude. Stated for lists that name no
\* instant twice.
C32_WindowsTile ==
    (pc = "done" /\ DistinctTimes(allPredictions)) =>
        \A i \in 1..(Len(initialIndicators) - 1) :
            initialIndicators[i].end_datetime = Some(initialIndicators[i + 1].datetime)

-----------------------------------------------------------------------------
(* C33 *)

\* C33: when the timestamps within each timeframe list are distinct, one signal
\* advances at most one chain: no two Propagations of the output share both
\* datetime and lower_freq.
C33_OneChainPerSignal ==
    (pc = "done" /\ DistinctTimes(allPredictions)) =>
        \A i, j \in 1..Len(propagations) :
            (/\ propagations[i].datetime = propagations[j].datetime
             /\ propagations[i].lower_freq = propagations[j].lower_freq) => i = j

-----------------------------------------------------------------------------
(* C34 *)

\* signals of one instant stand in allSignals in ascending order of rank
RanksAscendWithinInstant ==
    pc = "scan" =>
        \A i, j \in 1..Len(allSignals) :
            (i < j /\ allSignals[i].datetime = allSignals[j].datetime)
                => allSignals[i].timeframeIndex <= allSignals[j].timeframeIndex

\* a chain that meets a same-sign signal on its next expected rank emits the
\* Propagation for it and, where a further rank exists, goes on to expect that
\* rank at the same instant
AdvancesWithinInstant ==
    Scanning =>
        \A c \in 1..Len(activeChains) :
            LET chain == activeChains[c]
                signal == allSignals[signalIndex]
                after == WithId(propagations', chain.chainId)
            IN  (Meets(chain, signal) /\ Sign(signal.value) = Sign(chain.trendType))
                  => /\ Len(after) = Len(WithId(propagations, chain.chainId)) + 1
                     /\ after[Len(after)].datetime = signal.datetimeString
                     /\ after[Len(after)].lower_freq = signal.timeframe
                     /\ signal.timeframeIndex + 1 < Len(sortedTimeframes)
                           => /\ activeChains'[c].isActive
                              /\ activeChains'[c].nextExpectedTimeframeIndex =
                                     signal.timeframeIndex + 1

\* C34: signals that carry the same timestamp on different timeframes are
\* processed in ascending order of rank, so that a chain whose window contains
\* instant t and that finds same-sign signals at t on ranks r+1 and r+2 (r its
\* current rank) emits both Propagations at t, the one for rank r+1 first; an
\* opposite-sign signal at t on rank r+2 does not stop the propagation to rank
\* r+1: the signal of rank r+1 is met first, and meeting it the chain emits
\* and moves on to rank r+2.
C34_SameInstantByRank ==
    /\ []RanksAscendWithinInstant
    /\ [][AdvancesWithinInstant]_vars

-----------------------------------------------------------------------------
(* C35 *)

\* C35: at the end of the scan every chain that is still active has a next
\* expected rank that exists in the ranked timeframe list; in particular no
\* chain is left active when only one timeframe is ranked.
C35_ActiveChainsExpectARank ==
    pc = "done" =>
        \A c \in 1..Len(activeChains) :
            activeChains[c].isActive =>
                activeChains[c].nextExpectedTimeframeIndex < Len(sortedTimeframes)

-----------------------------------------------------------------------------
(* C36 *)

\* what the claim compares of a list of indicators
IndicatorFacts(indicators) ==
    [i \in 1..Len(indicators) |->
        [datetime |-> indicators[i].datetime,
         direction |-> Sign(indicators[i].trend_type),
         timeframe |-> indicators[i].timeframe,
         end_datetime |-> indicators[i].end_datetime]]

\* C36: on every feed whose lists are time-sorted the two implementations
\* return the same sequence of InitialIndicators: the same datetime,
\* direction, timeframe and end_datetime, in the same order.
C36_SameIndicators ==
    (pc = "done" /\ selectedTimeframes = <<>>) =>
        IndicatorFacts(initialIndicators) =
            IndicatorFacts(trackerExtractTrendIndicators(allPredictions).initialIndicators)

-----------------------------------------------------------------------------
(* C37 *)

\* an entry shown matches a non-zero input signal of the ticker: the same
\* datetime, the same timeframe and the same sign
MatchesSignal(entry, preds, ticker) ==
    /\ entry.ticker = ticker
    /\ \E k \in 1..Len(preds) :
          /\ preds[k].tf = entry.timeframeId
          /\ \E i \in 1..Len(preds[k].preds) :
                /\ preds[k].preds[i].datetime = entry.datetime
                /\ preds[k].preds[i].value # 0
                /\ Sign(preds[k].preds[i].value) = Sign(entry.value)

\* datetime, timeframe and sign of the entries of a list
Shown(entries) ==
    {<<entries[i].datetime, entries[i].timeframeId, Sign(entries[i].value)>> :
        i \in 1..Len(entries)}

====
